---- MODULE Spec2Model ----
(***************************************************************************)
(* The ACE playbook delta engine: AcePlaybookService.apply_deltas and the  *)
(* store it mutates (sections, bullets, revisions), as implemented in      *)
(* src/app/domain/ace/playbook.py, services.py, delta.py and               *)
(* src/app/db/models/ace_playbook.py.                                      *)
(***************************************************************************)
EXTENDS Integers, Sequences, FiniteSets, TLC

\* One session used call after call.
VARIABLES committed, store, inTx, calls, call
\* Several sessions on one database, each running apply_deltas step by step.
VARIABLES cdb, sess, reader

\* The construction of one DeltaOperation from a payload.
VARIABLES payload, verdict

seqVars == <<committed, store, inTx, calls, call>>
concVars == <<cdb, sess, reader>>
valVars == <<payload, verdict>>
vars == <<committed, store, inTx, calls, call, cdb, sess, reader, payload, verdict>>

(***************************************************************************)
(* Bounds of the model.                                                    *)
(***************************************************************************)
MaxLen == 2
MaxCalls == 2
MaxConcLen == 2
MaxLongLen == 3

(***************************************************************************)
(* Values.                                                                 *)
(***************************************************************************)
None == "None"
EmptyDict == "{}"

BulletIds == {"b1", "b2"}
SectionNames == {"s1", "s2"}

\* bool(x) of an optional string: None and "" are falsy.
Truthy(x) == x # None /\ x # ""

\* str.title() on the section names of the model.
Title(name) == IF name = "s1" THEN "S1" ELSE IF name = "s2" THEN "S2" ELSE name

\* max(a, b)
Max(a, b) == IF a >= b THEN a ELSE b

(***************************************************************************)
(* DeltaOperation                                                          *)
(***************************************************************************)
Op(a, b, s, d, c, m, hd, md) ==
    [action |-> a, bullet_id |-> b, section_name |-> s,
     section_display_name |-> d, content |-> c, metadata |-> m,
     helpful_delta |-> hd, harmful_delta |-> md]

\* Mutant: an UPDATE with an empty metadata dictionary carries no payload.
ValidateActionMetadataTruthy(op) ==
    /\ op.action = "ADD" => (Truthy(op.section_name) /\ Truthy(op.content))
    /\ op.action = "UPDATE" =>
          \/ Truthy(op.section_name)
          \/ Truthy(op.section_display_name)
          \/ Truthy(op.content)
          \/ (op.metadata # None /\ op.metadata # EmptyDict)
    /\ op.action = "TAG" => ~(op.helpful_delta = 0 /\ op.harmful_delta = 0)

\* DeltaOperation._validate_action: TRUE when construction succeeds.
ValidateAction(op) ==
    /\ op.action = "ADD" => (Truthy(op.section_name) /\ Truthy(op.content))
    /\ op.action = "UPDATE" =>
          \/ Truthy(op.section_name)
          \/ Truthy(op.section_display_name)
          \/ Truthy(op.content)
          \/ op.metadata # None
    /\ op.action = "TAG" => ~(op.helpful_delta = 0 /\ op.harmful_delta = 0)

\* bullet_id: str = Field(..., min_length=1, max_length=128)
MinIdLength == 1
MaxIdLength == 128

\* A bullet_id of the model one character longer than the field allows.
LongId == "b129"

\* len(bullet_id) for the identifiers of the model.
IdLength(bullet_id) ==
    IF bullet_id = "" THEN 0
    ELSE IF bullet_id = LongId THEN MaxIdLength + 1
    ELSE 2

\* DeltaOperation(**payload): the field constraints, then the validator.
Construct(op) ==
    IF /\ MinIdLength <= IdLength(op.bullet_id)
       /\ IdLength(op.bullet_id) <= MaxIdLength
       /\ ValidateAction(op)
    THEN "ok"
    ELSE "ValidationError"

\* The payloads a caller constructs an operation from in the model.
Payloads ==
    [action : {"ADD", "UPDATE", "TAG", "REMOVE"},
     bullet_id : {"", "b1", LongId},
     section_name : {None, "", "s1"},
     section_display_name : {None, "", "d1"},
     content : {None, "", "cA"},
     metadata : {None, EmptyDict, "m1"},
     helpful_delta : -1..1,
     harmful_delta : -1..1]

NoPayload == Op("REMOVE", "b1", None, None, None, None, 0, 0)

DedupeKey(op) == <<op.action, op.bullet_id>>

\* The operations a caller submits in the model.
CandidateOps ==
    { Op("ADD", "b1", "s1", None, "cA", None, 0, 0),
      Op("ADD", "b1", "s2", "d1", "cB", "m1", -1, 1),
      Op("ADD", "b2", "s1", None, "cB", None, 1, 0),
      Op("UPDATE", "b1", None, None, "cB", None, 0, 0),
      Op("UPDATE", "b1", None, None, None, "m1", 0, 0),
      Op("UPDATE", "b1", None, "d1", None, None, 0, 0),
      Op("UPDATE", "b1", "s2", "d2", None, None, 0, 0),
      Op("TAG", "b1", None, None, None, None, 1, 0),
      Op("TAG", "b1", None, None, None, None, -1, 0),
      Op("TAG", "b1", None, None, None, None, 0, -1),
      Op("TAG", "b2", None, None, None, None, 0, 1),
      Op("REMOVE", "b1", None, None, None, None, 0, 0),
      Op("REMOVE", "b2", None, None, None, None, 0, 0) }

Ops == {op \in CandidateOps : ValidateAction(op)}

Batches == UNION {[1..n -> Ops] : n \in 0..MaxLen}

(***************************************************************************)
(* _deduplicate_ops: a dict keyed by dedupe_key(); a repeated key keeps    *)
(* the position of its first occurrence.                                   *)
(***************************************************************************)
\* Mutant: a repeated TAG replaces the earlier one instead of adding to it.
DedupInsertOverwriteTag(deduped, op) ==
    LET pos == {i \in 1..Len(deduped) : DedupeKey(deduped[i]) = DedupeKey(op)}
    IN  IF pos = {} THEN Append(deduped, op)
        ELSE LET i == CHOOSE j \in pos : TRUE
             IN  [deduped EXCEPT ![i] = op]

\* Mutant: a repeated ADD/UPDATE/REMOVE is merged field by field into the
\* earlier one, so the fields the later one leaves out survive.
DedupInsertMergeFields(deduped, op) ==
    LET pos == {i \in 1..Len(deduped) : DedupeKey(deduped[i]) = DedupeKey(op)}
    IN  IF pos = {} THEN Append(deduped, op)
        ELSE LET i == CHOOSE j \in pos : TRUE
                 old == deduped[i]
             IN  IF op.action = "TAG"
                 THEN [deduped EXCEPT
                         ![i].helpful_delta = @ + op.helpful_delta,
                         ![i].harmful_delta = @ + op.harmful_delta]
                 ELSE [deduped EXCEPT ![i] =
                         [f \in DOMAIN op |->
                            IF f \in {"helpful_delta", "harmful_delta"} THEN op[f]
                            ELSE IF op[f] = None THEN old[f] ELSE op[f]]]

\* Mutant: a replaced operation moves to the end of the batch.
DedupInsertMoveToEnd(deduped, op) ==
    LET pos == {i \in 1..Len(deduped) : DedupeKey(deduped[i]) = DedupeKey(op)}
    IN  IF pos = {} THEN Append(deduped, op)
        ELSE LET i == CHOOSE j \in pos : TRUE
             IN  IF op.action = "TAG"
                 THEN [deduped EXCEPT
                         ![i].helpful_delta = @ + op.helpful_delta,
                         ![i].harmful_delta = @ + op.harmful_delta]
                 ELSE Append(SubSeq(deduped, 1, i - 1)
                               \o SubSeq(deduped, i + 1, Len(deduped)), op)

DedupInsert(deduped, op) ==
    LET pos == {i \in 1..Len(deduped) : DedupeKey(deduped[i]) = DedupeKey(op)}
    IN  IF pos = {} THEN Append(deduped, op)
        ELSE LET i == CHOOSE j \in pos : TRUE
             IN  IF op.action = "TAG"
                 THEN [deduped EXCEPT
                         ![i].helpful_delta = @ + op.helpful_delta,
                         ![i].harmful_delta = @ + op.harmful_delta]
                 ELSE [deduped EXCEPT ![i] = op]

RECURSIVE DedupPrefix(_, _)
DedupPrefix(operations, n) ==
    IF n = 0 THEN <<>>
    ELSE DedupInsert(DedupPrefix(operations, n - 1), operations[n])

DeduplicateOps(operations) == DedupPrefix(operations, Len(operations))

(***************************************************************************)
(* The store: three tables of rows with surrogate primary keys.            *)
(***************************************************************************)
EmptyStore == [sections |-> {}, bullets |-> {}, revisions |-> {}]

\* A new primary key (a UUID in the code): the least key not in the table.
FreshId(rows) ==
    CHOOSE n \in 1..(Cardinality(rows) + 1) :
        /\ \A r \in rows : r.id # n
        /\ \A k \in 1..(n - 1) : \E r \in rows : r.id = k

\* created_at of a row inserted now: the clock reads later than it did for
\* every row inserted before.  Only the order of the values is meaningful.
NextCreatedAt(rows) ==
    LET times == {r.created_at : r \in rows}
    IN  IF times = {} THEN 1
        ELSE 1 + (CHOOSE n \in times : \A k \in times : k <= n)

\* uq_ace_playbook_section_name
SectionNameTaken(st, name) == \E r \in st.sections : r.name = name

\* uq_ace_playbook_bullet_identifier
BulletIdTaken(st, bullet_id) == \E r \in st.bullets : r.bullet_id = bullet_id

\* get_one_or_none(m.AcePlaybookSection.name == name): the set of matches.
FindSection(st, name) == {r \in st.sections : r.name = name}

\* get_one_or_none(m.AcePlaybookBullet.bullet_id == bullet_id)
FindBullet(st, bullet_id) == {r \in st.bullets : r.bullet_id = bullet_id}

\* Mutant: the UPDATE statement has no WHERE clause and sets every row.
UpdateRowEveryRow(rows, id, data) ==
    {[f \in DOMAIN r |-> IF f \in DOMAIN data THEN data[f] ELSE r[f]] : r \in rows}

\* service.update(data, item_id): set the given columns of one row.
UpdateRow(rows, id, data) ==
    {IF r.id = id
     THEN [f \in DOMAIN r |-> IF f \in DOMAIN data THEN data[f] ELSE r[f]]
     ELSE r : r \in rows}

\* service.delete(item_id)
DeleteRow(rows, id) == {r \in rows : r.id # id}

\* INSERT into ace_playbook_section under its unique constraint.
InsertSection(st, row) ==
    IF SectionNameTaken(st, row.name)
    THEN [st |-> st, error |-> "IntegrityError"]
    ELSE [st |-> [st EXCEPT !.sections = @ \cup {row}], error |-> None]

\* INSERT into ace_playbook_bullet under its unique constraint.
InsertBulletPerSection(st, row) ==
    IF \E r \in st.bullets : r.bullet_id = row.bullet_id /\ r.section_id = row.section_id
    THEN [st |-> st, error |-> "IntegrityError"]
    ELSE [st |-> [st EXCEPT !.bullets = @ \cup {row}], error |-> None]

InsertBulletIgnoreConflict(st, row) ==
    IF BulletIdTaken(st, row.bullet_id)
    THEN [st |-> st, error |-> None]
    ELSE [st |-> [st EXCEPT !.bullets = @ \cup {row}], error |-> None]

InsertBullet(st, row) ==
    IF BulletIdTaken(st, row.bullet_id)
    THEN [st |-> st, error |-> "IntegrityError"]
    ELSE [st |-> [st EXCEPT !.bullets = @ \cup {row}], error |-> None]

(***************************************************************************)
(* AcePlaybookSectionService                                               *)
(***************************************************************************)
\* Mutant: the new section takes the current maximum itself.
NextOrderingNoIncrement(st) ==
    IF st.sections = {} THEN 1
    ELSE CHOOSE n \in {r.ordering : r \in st.sections} :
             \A r \in st.sections : r.ordering <= n

\* _next_ordering: (max(ordering) or 0) + 1
NextOrdering(st) ==
    LET current == IF st.sections = {} THEN 0
                   ELSE CHOOSE n \in {r.ordering : r \in st.sections} :
                            \A r \in st.sections : r.ordering <= n
    IN  current + 1

\* dict(old).update(new) on the metadata values of the model.
MergeMetadata(old, new) == IF new = EmptyDict THEN old ELSE new

\* self.update(section.id, data=updates): the service method is
\* update(data, item_id=None, ...), as the other calls of it show
\* (self.update(data=data, item_id=existing.id), todo_service.update(todo)),
\* so the positional argument and the keyword both bind `data` and the call
\* raises TypeError before any statement reaches the store.
ServiceUpdate(item_id, data) == "TypeError"

\* get_or_create: [st, id, error]
GetOrCreate(st, name, display_name, description, metadata) ==
    LET found == FindSection(st, name)
    IN  IF found # {}
        THEN LET section == CHOOSE r \in found : TRUE
                 merged == IF metadata = None THEN section.metadata
                           ELSE MergeMetadata(section.metadata, metadata)
                 fields ==
                     (IF Truthy(display_name) /\ section.display_name # display_name
                      THEN {"display_name"} ELSE {})
                     \cup (IF Truthy(description) /\ section.description # description
                           THEN {"description"} ELSE {})
                     \cup (IF metadata # None /\ merged # section.metadata
                           THEN {"metadata"} ELSE {})
                 updates == [f \in fields |->
                               IF f = "display_name" THEN display_name
                               ELSE IF f = "description" THEN description
                               ELSE merged]
             IN  [st |-> st,
                  id |-> section.id,
                  error |-> IF fields # {} THEN ServiceUpdate(section.id, updates)
                            ELSE None]
        ELSE LET row == [id |-> FreshId(st.sections),
                         name |-> name,
                         display_name |-> IF Truthy(display_name) THEN display_name
                                          ELSE Title(name),
                         description |-> description,
                         ordering |-> NextOrdering(st),
                         metadata |-> IF metadata = None THEN EmptyDict ELSE metadata]
                 ins == InsertSection(st, row)
             IN  [st |-> ins.st, id |-> row.id, error |-> ins.error]

(***************************************************************************)
(* AcePlaybookService: the four operations.  Each returns the new store,   *)
(* what the caller tests (the bullet found, or removed) and the error      *)
(* raised, if any.                                                         *)
(***************************************************************************)
\* Mutant: ADD inserts without looking the bullet up first.
ApplyAddAlwaysCreate(st, delta) ==
    LET sec == GetOrCreate(st, delta.section_name, delta.section_display_name,
                           None, None)
        row == [id |-> FreshId(sec.st.bullets),
                created_at |-> NextCreatedAt(sec.st.bullets),
                bullet_id |-> delta.bullet_id,
                content |-> delta.content,
                section_id |-> sec.id,
                metadata |-> IF delta.metadata = None THEN EmptyDict
                             ELSE delta.metadata,
                helpful_count |-> Max(delta.helpful_delta, 0),
                harmful_count |-> Max(delta.harmful_delta, 0)]
        ins == InsertBullet(sec.st, row)
    IN  IF sec.error # None
        THEN [st |-> sec.st, bullet |-> None, error |-> sec.error]
        ELSE [st |-> ins.st,
              bullet |-> IF ins.error = None THEN delta.bullet_id ELSE None,
              error |-> ins.error]

\* _apply_add
ApplyAdd(st, delta) ==
    LET sec == GetOrCreate(st, delta.section_name, delta.section_display_name,
                           None, None)
        data == [bullet_id |-> delta.bullet_id,
                 content |-> delta.content,
                 section_id |-> sec.id,
                 metadata |-> IF delta.metadata = None THEN EmptyDict
                              ELSE delta.metadata,
                 helpful_count |-> Max(delta.helpful_delta, 0),
                 harmful_count |-> Max(delta.harmful_delta, 0)]
        existing == FindBullet(sec.st, delta.bullet_id)
    IN  IF sec.error # None
        THEN [st |-> sec.st, bullet |-> None, error |-> sec.error]
        ELSE IF existing # {}
        THEN LET row == CHOOSE r \in existing : TRUE
             IN  [st |-> [sec.st EXCEPT !.bullets = UpdateRow(@, row.id, data)],
                  bullet |-> delta.bullet_id,
                  error |-> None]
        ELSE LET row == [id |-> FreshId(sec.st.bullets),
                         created_at |-> NextCreatedAt(sec.st.bullets),
                         bullet_id |-> data.bullet_id,
                         content |-> data.content,
                         section_id |-> data.section_id,
                         metadata |-> data.metadata,
                         helpful_count |-> data.helpful_count,
                         harmful_count |-> data.harmful_count]
                 ins == InsertBullet(sec.st, row)
             IN  [st |-> ins.st,
                  bullet |-> IF ins.error = None THEN delta.bullet_id ELSE None,
                  error |-> ins.error]

\* Mutant: UPDATE resolves its section before it looks the bullet up.
ApplyUpdateSectionFirst(st, delta) ==
    LET sec == IF Truthy(delta.section_name)
               THEN GetOrCreate(st, delta.section_name,
                                delta.section_display_name, None, None)
               ELSE [st |-> st, id |-> None, error |-> None]
        found == FindBullet(sec.st, delta.bullet_id)
        fields ==
            (IF Truthy(delta.content) THEN {"content"} ELSE {})
            \cup (IF delta.metadata # None THEN {"metadata"} ELSE {})
            \cup (IF Truthy(delta.section_name) THEN {"section_id"} ELSE {})
        updates == [f \in fields |->
                      IF f = "content" THEN delta.content
                      ELSE IF f = "metadata" THEN delta.metadata
                      ELSE sec.id]
    IN  IF sec.error # None
        THEN [st |-> sec.st, bullet |-> None, error |-> sec.error]
        ELSE IF found = {}
        THEN [st |-> sec.st, bullet |-> None, error |-> None]
        ELSE IF fields = {}
        THEN [st |-> sec.st, bullet |-> delta.bullet_id, error |-> None]
        ELSE LET bullet == CHOOSE r \in found : TRUE
             IN  [st |-> [sec.st EXCEPT !.bullets = UpdateRow(@, bullet.id, updates)],
                  bullet |-> delta.bullet_id,
                  error |-> None]

\* Mutant: an UPDATE that provides no field is treated as a missing bullet.
ApplyUpdateInertSkipped(st, delta) ==
    LET found == FindBullet(st, delta.bullet_id)
        sec == IF Truthy(delta.section_name)
               THEN GetOrCreate(st, delta.section_name,
                                delta.section_display_name, None, None)
               ELSE [st |-> st, id |-> None, error |-> None]
        fields ==
            (IF Truthy(delta.content) THEN {"content"} ELSE {})
            \cup (IF delta.metadata # None THEN {"metadata"} ELSE {})
            \cup (IF Truthy(delta.section_name) THEN {"section_id"} ELSE {})
        updates == [f \in fields |->
                      IF f = "content" THEN delta.content
                      ELSE IF f = "metadata" THEN delta.metadata
                      ELSE sec.id]
    IN  IF found = {} \/ fields = {}
        THEN [st |-> st, bullet |-> None, error |-> None]
        ELSE IF sec.error # None
        THEN [st |-> sec.st, bullet |-> None, error |-> sec.error]
        ELSE LET bullet == CHOOSE r \in found : TRUE
             IN  [st |-> [sec.st EXCEPT !.bullets = UpdateRow(@, bullet.id, updates)],
                  bullet |-> delta.bullet_id,
                  error |-> None]

\* _apply_update
ApplyUpdate(st, delta) ==
    LET found == FindBullet(st, delta.bullet_id)
    IN  IF found = {}
        THEN [st |-> st, bullet |-> None, error |-> None]
        ELSE
        LET bullet == CHOOSE r \in found : TRUE
            sec == IF Truthy(delta.section_name)
                   THEN GetOrCreate(st, delta.section_name,
                                    delta.section_display_name, None, None)
                   ELSE [st |-> st, id |-> None, error |-> None]
            fields ==
                (IF Truthy(delta.content) THEN {"content"} ELSE {})
                \cup (IF delta.metadata # None THEN {"metadata"} ELSE {})
                \cup (IF Truthy(delta.section_name) THEN {"section_id"} ELSE {})
            updates == [f \in fields |->
                          IF f = "content" THEN delta.content
                          ELSE IF f = "metadata" THEN delta.metadata
                          ELSE sec.id]
        IN  IF sec.error # None
            THEN [st |-> sec.st, bullet |-> None, error |-> sec.error]
            ELSE IF fields = {}
            THEN [st |-> sec.st, bullet |-> delta.bullet_id, error |-> None]
            ELSE [st |-> [sec.st EXCEPT !.bullets = UpdateRow(@, bullet.id, updates)],
                  bullet |-> delta.bullet_id,
                  error |-> None]

\* Mutant: TAG adds the deltas without the floor at zero.
ApplyTagNoClamp(st, delta) ==
    LET found == FindBullet(st, delta.bullet_id)
    IN  IF found = {}
        THEN [st |-> st, bullet |-> None, error |-> None]
        ELSE
        LET bullet == CHOOSE r \in found : TRUE
        IN  [st |-> [st EXCEPT !.bullets =
                        UpdateRow(@, bullet.id,
                                  [helpful_count |-> bullet.helpful_count + delta.helpful_delta,
                                   harmful_count |-> bullet.harmful_count + delta.harmful_delta])],
             bullet |-> delta.bullet_id,
             error |-> None]

\* Mutant: the deltas are subtracted from the counters.
ApplyTagSubtract(st, delta) ==
    LET found == FindBullet(st, delta.bullet_id)
    IN  IF found = {}
        THEN [st |-> st, bullet |-> None, error |-> None]
        ELSE
        LET bullet == CHOOSE r \in found : TRUE
            new_helpful == Max(0, bullet.helpful_count - delta.helpful_delta)
            new_harmful == Max(0, bullet.harmful_count - delta.harmful_delta)
        IN  [st |-> [st EXCEPT !.bullets =
                        UpdateRow(@, bullet.id,
                                  [helpful_count |-> new_helpful,
                                   harmful_count |-> new_harmful])],
             bullet |-> delta.bullet_id,
             error |-> None]

\* Mutant: the harmful counter is computed from the helpful one.
ApplyTagWrongBase(st, delta) ==
    LET found == FindBullet(st, delta.bullet_id)
    IN  IF found = {}
        THEN [st |-> st, bullet |-> None, error |-> None]
        ELSE
        LET bullet == CHOOSE r \in found : TRUE
            new_helpful == Max(0, bullet.helpful_count + delta.helpful_delta)
            new_harmful == Max(0, bullet.helpful_count + delta.harmful_delta)
        IN  [st |-> [st EXCEPT !.bullets =
                        UpdateRow(@, bullet.id,
                                  [helpful_count |-> new_helpful,
                                   harmful_count |-> new_harmful])],
             bullet |-> delta.bullet_id,
             error |-> None]

\* Mutant: TAG writes the helpful counter only.
ApplyTagHelpfulOnly(st, delta) ==
    LET found == FindBullet(st, delta.bullet_id)
    IN  IF found = {}
        THEN [st |-> st, bullet |-> None, error |-> None]
        ELSE LET bullet == CHOOSE r \in found : TRUE
                 data == [helpful_count |->
                              Max(0, bullet.helpful_count + delta.helpful_delta)]
             IN  [st |-> [st EXCEPT !.bullets = UpdateRow(@, bullet.id, data)],
                  bullet |-> delta.bullet_id,
                  error |-> None]

\* _apply_tag
ApplyTag(st, delta) ==
    LET found == FindBullet(st, delta.bullet_id)
    IN  IF found = {}
        THEN [st |-> st, bullet |-> None, error |-> None]
        ELSE
        LET bullet == CHOOSE r \in found : TRUE
            new_helpful == Max(0, bullet.helpful_count + delta.helpful_delta)
            new_harmful == Max(0, bullet.harmful_count + delta.harmful_delta)
        IN  [st |-> [st EXCEPT !.bullets =
                        UpdateRow(@, bullet.id,
                                  [helpful_count |-> new_helpful,
                                   harmful_count |-> new_harmful])],
             bullet |-> delta.bullet_id,
             error |-> None]

\* Mutant: removing the last bullet of a section deletes the section too.
ApplyRemoveDropsEmptySection(st, delta) ==
    LET found == FindBullet(st, delta.bullet_id)
    IN  IF found = {}
        THEN [st |-> st, removed |-> FALSE, error |-> None]
        ELSE LET bullet == CHOOSE r \in found : TRUE
                 left == DeleteRow(st.bullets, bullet.id)
             IN  [st |-> [st EXCEPT
                       !.bullets = left,
                       !.sections =
                           {r \in @ : r.id # bullet.section_id
                                       \/ \E b \in left : b.section_id = r.id}],
                  removed |-> TRUE,
                  error |-> None]

\* _apply_remove
ApplyRemove(st, delta) ==
    LET found == FindBullet(st, delta.bullet_id)
    IN  IF found = {}
        THEN [st |-> st, removed |-> FALSE, error |-> None]
        ELSE LET bullet == CHOOSE r \in found : TRUE
             IN  [st |-> [st EXCEPT !.bullets = DeleteRow(@, bullet.id)],
                  removed |-> TRUE,
                  error |-> None]

(***************************************************************************)
(* PlaybookDeltaResult                                                     *)
(***************************************************************************)
\* revision_id: str | None = None.  Revision keys are the integers from 1,
\* so 0 stands for None in this field.
NoRevision == 0

EmptyResult ==
    [added |-> <<>>, updated |-> <<>>, tagged |-> <<>>, removed |-> <<>>,
     skipped |-> <<>>, revision_id |-> NoRevision]

\* Mutant: skipped operations count as changes.
HasChangesCountsSkipped(result) ==
    \/ result.added # <<>>
    \/ result.updated # <<>>
    \/ result.tagged # <<>>
    \/ result.removed # <<>>
    \/ result.skipped # <<>>

\* has_changes
HasChanges(result) ==
    \/ result.added # <<>>
    \/ result.updated # <<>>
    \/ result.tagged # <<>>
    \/ result.removed # <<>>

(***************************************************************************)
(* apply_deltas: the body of the loop for one operation.  acc is the store *)
(* as seen inside the transaction, the result so far and the exception     *)
(* propagating, if any.                                                    *)
(***************************************************************************)
\* Mutant: a TAG that found its bullet is reported under no list.
LoopBodyTagUnreported(acc, delta) ==
    IF acc.error # None THEN acc
    ELSE IF delta.action = "ADD"
    THEN LET r == ApplyAdd(acc.st, delta)
         IN  [st |-> r.st,
              result |-> IF r.error = None
                         THEN [acc.result EXCEPT !.added = Append(@, r.bullet)]
                         ELSE acc.result,
              error |-> r.error]
    ELSE IF delta.action = "UPDATE"
    THEN LET r == ApplyUpdate(acc.st, delta)
         IN  [st |-> r.st,
              result |-> IF r.error # None THEN acc.result
                         ELSE IF r.bullet # None
                         THEN [acc.result EXCEPT !.updated = Append(@, r.bullet)]
                         ELSE [acc.result EXCEPT !.skipped = Append(@, delta.bullet_id)],
              error |-> r.error]
    ELSE IF delta.action = "TAG"
    THEN LET r == ApplyTag(acc.st, delta)
         IN  [st |-> r.st,
              result |-> IF r.bullet # None
                         THEN acc.result
                         ELSE [acc.result EXCEPT !.skipped = Append(@, delta.bullet_id)],
              error |-> r.error]
    ELSE LET r == ApplyRemove(acc.st, delta)
         IN  [st |-> r.st,
              result |-> IF r.removed
                         THEN [acc.result EXCEPT !.removed = Append(@, delta.bullet_id)]
                         ELSE [acc.result EXCEPT !.skipped = Append(@, delta.bullet_id)],
              error |-> r.error]

LoopBody(acc, delta) ==
    IF acc.error # None THEN acc
    ELSE IF delta.action = "ADD"
    THEN LET r == ApplyAdd(acc.st, delta)
         IN  [st |-> r.st,
              result |-> IF r.error = None
                         THEN [acc.result EXCEPT !.added = Append(@, r.bullet)]
                         ELSE acc.result,
              error |-> r.error]
    ELSE IF delta.action = "UPDATE"
    THEN LET r == ApplyUpdate(acc.st, delta)
         IN  [st |-> r.st,
              result |-> IF r.error # None THEN acc.result
                         ELSE IF r.bullet # None
                         THEN [acc.result EXCEPT !.updated = Append(@, r.bullet)]
                         ELSE [acc.result EXCEPT !.skipped = Append(@, delta.bullet_id)],
              error |-> r.error]
    ELSE IF delta.action = "TAG"
    THEN LET r == ApplyTag(acc.st, delta)
         IN  [st |-> r.st,
              result |-> IF r.bullet # None
                         THEN [acc.result EXCEPT !.tagged = Append(@, r.bullet)]
                         ELSE [acc.result EXCEPT !.skipped = Append(@, delta.bullet_id)],
              error |-> r.error]
    ELSE LET r == ApplyRemove(acc.st, delta)
         IN  [st |-> r.st,
              result |-> IF r.removed
                         THEN [acc.result EXCEPT !.removed = Append(@, delta.bullet_id)]
                         ELSE [acc.result EXCEPT !.skipped = Append(@, delta.bullet_id)],
              error |-> r.error]

\* The loop over the first n operations of deduped.  failAt names the store
\* call that raises a StoreError: operation failAt, or the revision insert
\* when failAt = Len(deduped) + 1; 0 for none.
RECURSIVE RunLoop(_, _, _, _)
RunLoop(st, deduped, n, failAt) ==
    IF n = 0 THEN [st |-> st, result |-> EmptyResult, error |-> None]
    ELSE LET acc == RunLoop(st, deduped, n - 1, failAt)
         IN  IF acc.error = None /\ failAt = n
             THEN [acc EXCEPT !.error = "StoreError"]
             ELSE LoopBody(acc, deduped[n])

\* The store calls of a batch that the model lets fail: none (0), the last
\* operation, or the revision insert.
FailPoints(deduped) ==
    IF deduped = <<>> THEN {0} ELSE {0, Len(deduped), Len(deduped) + 1}

\* The keyword arguments of the calls of the model, those of the calls of
\* the unit test: applied_by="tester", description and metadata left out.
Description == None
AppliedBy == "tester"

\* Mutant: the revision records the last operation of the batch only.
RevisionRowLastOnly(id, deduped) ==
    [id |-> id,
     operations |-> <<deduped[Len(deduped)]>>,
     description |-> Description,
     applied_by |-> AppliedBy,
     metadata |-> EmptyDict]

\* The row revision_service.create inserts: the deduplicated operations as
\* model_dump gives them, and `metadata or {}`.
RevisionRow(id, deduped) ==
    [id |-> id,
     operations |-> [i \in 1..Len(deduped) |-> deduped[i]],
     description |-> Description,
     applied_by |-> AppliedBy,
     metadata |-> EmptyDict]

\* Mutant: the revision is written over the log instead of appended to it.
WriteRevisionOverwrite(acc, deduped, failAt) ==
    IF acc.error # None \/ ~HasChanges(acc.result) THEN acc
    ELSE IF failAt = Len(deduped) + 1
    THEN [acc EXCEPT !.error = "StoreError"]
    ELSE LET id == FreshId({})
         IN  [st |-> [acc.st EXCEPT !.revisions = {RevisionRow(id, deduped)}],
              result |-> [acc.result EXCEPT !.revision_id = id],
              error |-> None]

\* if result.has_changes(): revision_service.create(...)
WriteRevision(acc, deduped, failAt) ==
    IF acc.error # None \/ ~HasChanges(acc.result) THEN acc
    ELSE IF failAt = Len(deduped) + 1
    THEN [acc EXCEPT !.error = "StoreError"]
    ELSE LET id == FreshId(acc.st.revisions)
         IN  [st |-> [acc.st EXCEPT !.revisions = @ \cup {RevisionRow(id, deduped)}],
              result |-> [acc.result EXCEPT !.revision_id = id],
              error |-> None]

\* Mutant: an exception leaves the work of the batch in place.
TransactionExitNoRollback(outer, work, error, nested) ==
    IF nested
    THEN [committed |-> outer.committed, store |-> work, inTx |-> TRUE]
    ELSE [committed |-> work, store |-> work, inTx |-> FALSE]

\* Mutant: a failed nested batch rolls the whole outer transaction back.
TransactionExitRollsBackOuter(outer, work, error, nested) ==
    IF nested
    THEN [committed |-> outer.committed,
          store |-> IF error = None THEN work ELSE outer.committed,
          inTx |-> TRUE]
    ELSE [committed |-> IF error = None THEN work ELSE outer.committed,
          store |-> IF error = None THEN work ELSE outer.committed,
          inTx |-> FALSE]

\* Mutant: a nested batch that succeeds commits the outer transaction.
TransactionExitNestedCommits(outer, work, error, nested) ==
    IF nested
    THEN [committed |-> IF error = None THEN work ELSE outer.committed,
          store |-> IF error = None THEN work ELSE outer.store,
          inTx |-> TRUE]
    ELSE [committed |-> IF error = None THEN work ELSE outer.committed,
          store |-> IF error = None THEN work ELSE outer.committed,
          inTx |-> FALSE]

\* Leaving `async with transaction`: session.begin() commits, or rolls the
\* transaction back on an exception; session.begin_nested() releases its
\* savepoint, or rolls back to it.
TransactionExit(outer, work, error, nested) ==
    IF nested
    THEN [committed |-> outer.committed,
          store |-> IF error = None THEN work ELSE outer.store,
          inTx |-> TRUE]
    ELSE [committed |-> IF error = None THEN work ELSE outer.committed,
          store |-> IF error = None THEN work ELSE outer.committed,
          inTx |-> FALSE]

\* apply_deltas on a session in state outer = [committed, store, inTx].
ApplyDeltasOutcome(outer, operations, failAt) ==
    LET deduped == DeduplicateOps(operations)
    IN  IF deduped = <<>>
        THEN [session |-> outer, result |-> EmptyResult, error |-> None]
        ELSE LET nested == outer.inTx
                 acc == WriteRevision(RunLoop(outer.store, deduped, Len(deduped), failAt),
                                      deduped, failAt)
             IN  [session |-> TransactionExit(outer, acc.st, acc.error, nested),
                  result |-> acc.result,
                  error |-> acc.error]

(***************************************************************************)
(* get_snapshot.  A snapshot is [sections, bullets]: the two dictionaries   *)
(* as sequences of their values in insertion order.                        *)
(***************************************************************************)
\* The collation of the section names of the model.
NameOrder == <<"s1", "s2">>
NameRank(name) == CHOOSE i \in 1..Len(NameOrder) : NameOrder[i] = name

\* Mutant: the sections are ordered by name first.
SectionBeforeNameFirst(a, b) == NameRank(a.name) < NameRank(b.name)

\* order_by(ordering.asc(), name.asc())
SectionBefore(a, b) ==
    \/ a.ordering < b.ordering
    \/ a.ordering = b.ordering /\ NameRank(a.name) < NameRank(b.name)

RECURSIVE SectionsInOrder(_)
SectionsInOrder(rows) ==
    IF rows = {} THEN <<>>
    ELSE LET first == CHOOSE r \in rows : \A q \in rows \ {r} : SectionBefore(r, q)
         IN  <<first>> \o SectionsInOrder(rows \ {first})

\* order_by(created_at.asc())
RECURSIVE BulletsInOrder(_)
BulletsInOrder(rows) ==
    IF rows = {} THEN <<>>
    ELSE LET first == CHOOSE r \in rows : \A q \in rows : r.created_at <= q.created_at
         IN  <<first>> \o BulletsInOrder(rows \ {first})

\* bullet.section
SectionOf(st, bullet) == CHOOSE r \in st.sections : r.id = bullet.section_id

PlaybookSection(section, bullet_ids) ==
    [name |-> section.name, display_name |-> section.display_name,
     description |-> section.description, ordering |-> section.ordering,
     metadata |-> section.metadata, bullet_ids |-> bullet_ids]

PlaybookBullet(st, bullet) ==
    [bullet_id |-> bullet.bullet_id,
     section_name |-> SectionOf(st, bullet).name,
     section_display_name |-> SectionOf(st, bullet).display_name,
     content |-> bullet.content,
     helpful_count |-> bullet.helpful_count,
     harmful_count |-> bullet.harmful_count,
     metadata |-> bullet.metadata,
     created_at |-> bullet.created_at]

\* dict[key] = value: in place when the key is there, at the end otherwise.
DictSet(entries, field, value) ==
    IF \E i \in 1..Len(entries) : entries[i][field] = value[field]
    THEN [i \in 1..Len(entries) |->
            IF entries[i][field] = value[field] THEN value ELSE entries[i]]
    ELSE Append(entries, value)

\* Mutant: a bullet whose section is not in the snapshot is listed nowhere.
SnapshotAddBulletNoSynthesis(snapshot, st, bullet) ==
    LET section_name == SectionOf(st, bullet).name
    IN  [bullets |-> DictSet(snapshot.bullets, "bullet_id", PlaybookBullet(st, bullet)),
         sections |->
            [i \in 1..Len(snapshot.sections) |->
                IF snapshot.sections[i].name = section_name
                THEN [snapshot.sections[i] EXCEPT
                         !.bullet_ids = Append(@, bullet.bullet_id)]
                ELSE snapshot.sections[i]]]

\* The body of `for bullet in bullets`.
SnapshotAddBullet(snapshot, st, bullet) ==
    LET section_name == SectionOf(st, bullet).name
        known == \E i \in 1..Len(snapshot.sections) :
                    snapshot.sections[i].name = section_name
    IN  [bullets |-> DictSet(snapshot.bullets, "bullet_id", PlaybookBullet(st, bullet)),
         sections |->
            IF known
            THEN [i \in 1..Len(snapshot.sections) |->
                    IF snapshot.sections[i].name = section_name
                    THEN [snapshot.sections[i] EXCEPT
                             !.bullet_ids = Append(@, bullet.bullet_id)]
                    ELSE snapshot.sections[i]]
            ELSE Append(snapshot.sections,
                        PlaybookSection(SectionOf(st, bullet), <<bullet.bullet_id>>))]

RECURSIVE SnapshotBullets(_, _, _, _)
SnapshotBullets(snapshot, st, bullets, n) ==
    IF n = 0 THEN snapshot
    ELSE SnapshotAddBullet(SnapshotBullets(snapshot, st, bullets, n - 1),
                           st, bullets[n])

\* The rows a statement of get_snapshot selects from the store it sees; an
\* empty section_names, like None, selects everything (`if section_names`).
SelectSections(db, section_names) ==
    IF section_names # {}
    THEN {r \in db.sections : r.name \in section_names}
    ELSE db.sections

SelectBullets(db, section_names) ==
    IF section_names # {}
    THEN {b \in db.bullets :
            \E r \in db.sections : r.id = b.section_id /\ r.name \in section_names}
    ELSE db.bullets

\* Mutant: the sections of the snapshot are built from the bullets alone.
SnapshotFromBullets(st, section_names) ==
    LET bullets == BulletsInOrder(st.bullets)
    IN  SnapshotBullets([sections |-> <<>>, bullets |-> <<>>], st, bullets,
                        Len(bullets))

\* get_snapshot(section_names): section_names is a set of names, the empty
\* set for None.
Snapshot(st, section_names) ==
    LET sections == SectionsInOrder(SelectSections(st, section_names))
        bullets == BulletsInOrder(SelectBullets(st, section_names))
        listed == [i \in 1..Len(sections) |-> PlaybookSection(sections[i], <<>>)]
    IN  SnapshotBullets([sections |-> listed, bullets |-> <<>>], st, bullets,
                        Len(bullets))

(***************************************************************************)
(* Concurrent sessions.  Each session runs one apply_deltas call in its    *)
(* own transaction (session.begin()); every awaited store call is a step.  *)
(* The database gives READ COMMITTED: a statement sees the committed rows  *)
(* and the session's own uncommitted writes (pend); a write to a row that  *)
(* another open transaction has written, or an insert of a key another     *)
(* open transaction has inserted, waits for that transaction to end.       *)
(***************************************************************************)
Sessions == {"A", "B"}

\* The operations concurrent callers submit in the model.
ConcOps ==
    { op \in Ops :
        \/ op = Op("ADD", "b1", "s1", None, "cA", None, 0, 0)
        \/ op = Op("ADD", "b1", "s2", "d1", "cB", "m1", -1, 1)
        \/ op = Op("ADD", "b2", "s1", None, "cB", None, 1, 0)
        \/ op = Op("TAG", "b1", None, None, None, None, 1, 0)
        \/ op = Op("UPDATE", "b1", "s2", "d2", None, None, 0, 0)
        \/ op = Op("REMOVE", "b1", None, None, None, None, 0, 0) }

ConcBatches == UNION {[1..n -> ConcOps] : n \in 1..MaxConcLen}

NoPending ==
    [secIns |-> {}, bulIns |-> {}, bulUpd |-> {}, bulDel |-> {}, revIns |-> {}]

IdleSession ==
    [pc |-> "idle", ops |-> <<>>, i |-> 0, secId |-> 0, bul |-> {},
     pend |-> NoPending, result |-> EmptyResult, error |-> None,
     before |-> EmptyStore, after |-> EmptyStore]

\* A caller of get_snapshot: the sections its first read returned, the
\* bullet rows that read left in the identity map of its session (seen),
\* the ids its second read returned, and the snapshot it built.
IdleReader ==
    [pc |-> "idle", names |-> {}, cached |-> FALSE, sections |-> <<>>,
     seen |-> {}, read |-> {},
     snapshot |-> [sections |-> <<>>, bullets |-> <<>>]]

Ids(rows) == {r.id : r \in rows}

\* The store as the statements of a transaction with writes pend see it.
Overlay(db, pend) ==
    [sections |-> db.sections \cup pend.secIns,
     bullets |-> {r \in db.bullets :
                     r.id \notin pend.bulDel /\ r.id \notin Ids(pend.bulUpd)}
                   \cup {r \in pend.bulUpd : r.id \in Ids(db.bullets)}
                   \cup pend.bulIns,
     revisions |-> db.revisions \cup pend.revIns]

(***************************************************************************)
(* The state machine of one session.  committed is the database as other   *)
(* sessions see it, store what this session sees, inTx whether the session *)
(* has a transaction open; call records the latest apply_deltas call.      *)
(***************************************************************************)
NoCall ==
    [operations |-> <<>>, failAt |-> 0, nested |-> FALSE,
     pre |-> EmptyStore, preCommitted |-> EmptyStore,
     post |-> EmptyStore, postCommitted |-> EmptyStore,
     result |-> EmptyResult, error |-> None]

Init ==
    /\ committed = EmptyStore
    /\ store = EmptyStore
    /\ inTx = FALSE
    /\ calls = 0
    /\ call = NoCall
    /\ cdb = EmptyStore
    /\ sess = [s \in Sessions |-> IdleSession]
    /\ reader = IdleReader
    /\ payload = NoPayload
    /\ verdict = "unset"

ApplyDeltas ==
    /\ calls < MaxCalls
    /\ \E operations \in Batches :
       \E failAt \in FailPoints(DeduplicateOps(operations)) :
          \E out \in {ApplyDeltasOutcome([committed |-> committed, store |-> store,
                                         inTx |-> inTx], operations, failAt)} :
              /\ committed' = out.session.committed
              /\ store' = out.session.store
              /\ inTx' = out.session.inTx
              /\ calls' = calls + 1
              /\ call' = [operations |-> operations, failAt |-> failAt,
                          nested |-> inTx,
                          pre |-> store, preCommitted |-> committed,
                          post |-> out.session.store,
                          postCommitted |-> out.session.committed,
                          result |-> out.result, error |-> out.error]
    /\ UNCHANGED <<concVars, valVars>>

\* A read on the session outside apply_deltas begins a transaction.
GetSnapshot ==
    /\ inTx' = TRUE
    /\ UNCHANGED <<committed, store, calls, call>>
    /\ UNCHANGED <<concVars, valVars>>

\* The owner of the session commits the open transaction.
SessionCommit ==
    /\ inTx
    /\ committed' = store
    /\ inTx' = FALSE
    /\ UNCHANGED <<store, calls, call>>
    /\ UNCHANGED <<concVars, valVars>>

\* The owner of the session rolls the open transaction back (or closes it).
SessionRollback ==
    /\ inTx
    /\ store' = committed
    /\ inTx' = FALSE
    /\ UNCHANGED <<committed, calls, call>>
    /\ UNCHANGED <<concVars, valVars>>

Next ==
    \/ ApplyDeltas
    \/ GetSnapshot
    \/ SessionCommit
    \/ SessionRollback

Spec == Init /\ [][Next]_vars

\* The playbook a caller finds: empty, or holding bullet b1 of
\* section s1 with helpful_count 1, as an earlier ADD left it.
SeededStore ==
    ApplyDeltasOutcome([committed |-> EmptyStore, store |-> EmptyStore,
                        inTx |-> FALSE],
                       <<Op("ADD", "b1", "s1", None, "cA", None, 1, 0)>>,
                       0).session.committed

SeedStores == {EmptyStore, SeededStore}

(***************************************************************************)
(* One call of apply_deltas with a longer batch over a few operations on   *)
(* one bullet, on a session that has no transaction open, against an empty *)
(* playbook or one that holds the bullet.                                  *)
(***************************************************************************)
LongOps ==
    { Op("ADD", "b1", "s1", None, "cA", None, 0, 0),
      Op("UPDATE", "b1", None, None, "cA", None, 0, 0),
      Op("UPDATE", "b1", None, None, "cB", None, 0, 0),
      Op("TAG", "b1", None, None, None, None, 1, 0),
      Op("TAG", "b1", None, None, None, None, -1, 1),
      Op("REMOVE", "b1", None, None, None, None, 0, 0) }

LongBatches == UNION {[1..n -> LongOps] : n \in 1..MaxLongLen}

InitLong ==
    /\ committed \in SeedStores
    /\ store = committed
    /\ inTx = FALSE
    /\ calls = 0
    /\ call = NoCall
    /\ cdb = EmptyStore
    /\ sess = [s \in Sessions |-> IdleSession]
    /\ reader = IdleReader
    /\ payload = NoPayload
    /\ verdict = "unset"

ApplyLongBatch ==
    /\ calls = 0
    /\ \E operations \in LongBatches :
          \E out \in {ApplyDeltasOutcome([committed |-> committed, store |-> store,
                                         inTx |-> inTx], operations, 0)} :
              /\ committed' = out.session.committed
              /\ store' = out.session.store
              /\ inTx' = out.session.inTx
              /\ calls' = calls + 1
              /\ call' = [operations |-> operations, failAt |-> 0,
                          nested |-> inTx,
                          pre |-> store, preCommitted |-> committed,
                          post |-> out.session.store,
                          postCommitted |-> out.session.committed,
                          result |-> out.result, error |-> out.error]
    /\ UNCHANGED <<concVars, valVars>>

NextLong == ApplyLongBatch

SpecLong == InitLong /\ [][NextLong]_vars

(***************************************************************************)
(* The construction of a DeltaOperation, for every payload of the model.   *)
(***************************************************************************)
InitValidate ==
    /\ committed = EmptyStore
    /\ store = EmptyStore
    /\ inTx = FALSE
    /\ calls = 0
    /\ call = NoCall
    /\ cdb = EmptyStore
    /\ sess = [s \in Sessions |-> IdleSession]
    /\ reader = IdleReader
    /\ payload \in Payloads
    /\ verdict = "unset"

ConstructOperation ==
    /\ verdict = "unset"
    /\ verdict' = Construct(payload)
    /\ UNCHANGED <<payload, seqVars, concVars>>

NextValidate == ConstructOperation

SpecValidate == InitValidate /\ [][NextValidate]_vars

(***************************************************************************)
(* The steps of a concurrent apply_deltas call.                            *)
(***************************************************************************)
View(s) == Overlay(cdb, sess[s].pend)

\* The sessions other than s with a transaction open.
Others(s) == {t \in Sessions \ {s} : sess[t].pc \notin {"idle", "done", "failed"}}

CurOp(s) == sess[s].ops[sess[s].i]

AllSectionRows == cdb.sections \cup UNION {sess[t].pend.secIns : t \in Sessions}
AllBulletRows == cdb.bullets \cup UNION {sess[t].pend.bulIns : t \in Sessions}
AllRevisionRows == cdb.revisions \cup UNION {sess[t].pend.revIns : t \in Sessions}

RowOf(rows, id) == CHOOSE r \in rows : r.id = id

\* The first store call of an operation: get_or_create for ADD, the bullet
\* lookup for UPDATE, TAG and REMOVE.
FirstPhase(op) == IF op.action = "ADD" THEN "sec_lookup" ELSE "bul_lookup"

\* Go on to the next operation of the loop, or to the end of the block.
Advance(rec) ==
    LET j == rec.i + 1
    IN  [rec EXCEPT !.i = j, !.secId = 0, !.bul = {},
                    !.pc = IF j > Len(rec.ops) THEN "finish"
                           ELSE FirstPhase(rec.ops[j])]

\* Mutant: an UPDATE writes the whole row as the session loaded it, with
\* the new values of the operation.
ChangedImageWholeRow(current, loaded, data) ==
    [f \in DOMAIN current |-> IF f \in DOMAIN data THEN data[f] ELSE loaded[f]]

\* The row an ORM UPDATE leaves: only the columns whose new value differs
\* from the value the session loaded are set; the others keep the current
\* value of the row.
ChangedImage(current, loaded, data) ==
    [f \in DOMAIN current |->
        IF f \in DOMAIN data /\ data[f] # loaded[f] THEN data[f] ELSE current[f]]

\* The columns an operation writes to the bullet row it loaded.
BulletData(rec, op) ==
    IF op.action = "ADD"
    THEN [bullet_id |-> op.bullet_id,
          content |-> op.content,
          section_id |-> rec.secId,
          metadata |-> IF op.metadata = None THEN EmptyDict ELSE op.metadata,
          helpful_count |-> Max(op.helpful_delta, 0),
          harmful_count |-> Max(op.harmful_delta, 0)]
    ELSE IF op.action = "UPDATE"
    THEN LET fields ==
                 (IF Truthy(op.content) THEN {"content"} ELSE {})
                 \cup (IF op.metadata # None THEN {"metadata"} ELSE {})
                 \cup (IF Truthy(op.section_name) THEN {"section_id"} ELSE {})
         IN  [f \in fields |->
                 IF f = "content" THEN op.content
                 ELSE IF f = "metadata" THEN op.metadata
                 ELSE rec.secId]
    ELSE LET loaded == CHOOSE r \in rec.bul : TRUE
         IN  [helpful_count |-> Max(0, loaded.helpful_count + op.helpful_delta),
              harmful_count |-> Max(0, loaded.harmful_count + op.harmful_delta)]

\* The sessions whose open transaction the next store call of s waits for.
WaitsFor(s) ==
    LET rec == sess[s]
    IN  IF rec.pc = "sec_write"
        THEN {t \in Others(s) :
                \E r \in sess[t].pend.secIns : r.name = CurOp(s).section_name}
        ELSE IF rec.pc = "bul_write"
        THEN IF rec.bul = {}
             THEN {t \in Others(s) :
                     \/ \E r \in sess[t].pend.bulIns : r.bullet_id = CurOp(s).bullet_id
                     \/ \E r \in cdb.bullets :
                           /\ r.bullet_id = CurOp(s).bullet_id
                           /\ r.id \in sess[t].pend.bulDel}
             ELSE LET loaded == CHOOSE r \in rec.bul : TRUE
                      present == loaded.id \in Ids(View(s).bullets)
                      current == RowOf(View(s).bullets, loaded.id)
                      writes == \/ CurOp(s).action = "REMOVE"
                                \/ ChangedImage(current, loaded,
                                                BulletData(rec, CurOp(s))) # current
                  IN  IF present /\ writes
                      THEN {t \in Others(s) :
                              loaded.id \in Ids(sess[t].pend.bulUpd)
                                              \cup sess[t].pend.bulDel}
                      ELSE {}
        ELSE {}

\* An exception leaves `async with transaction`: the transaction of s is
\* rolled back and the call raises.
Raise(s, error) ==
    LET outer == [committed |-> cdb, store |-> cdb, inTx |-> FALSE]
        exit == TransactionExit(outer, View(s), error, FALSE)
    IN  /\ cdb' = exit.committed
        /\ sess' = [sess EXCEPT ![s] =
                      [@ EXCEPT !.pc = "failed", !.error = error,
                                !.pend = NoPending, !.secId = 0,
                                !.bul = {}, !.before = cdb,
                                !.after = exit.committed]]

\* apply_deltas is called on a session with no transaction open.
Begin(s) ==
    /\ sess[s].pc = "idle"
    /\ \E operations \in ConcBatches :
          LET deduped == DeduplicateOps(operations)
          IN  sess' = [sess EXCEPT ![s] =
                         [IdleSession EXCEPT !.ops = deduped, !.i = 1,
                                             !.pc = FirstPhase(deduped[1])]]
    /\ UNCHANGED cdb
    /\ UNCHANGED <<seqVars, valVars, reader>>

\* get_or_create: the lookup of the section by name, and the call of
\* self.update when the display name differs, which raises.
SectionLookup(s) ==
    /\ sess[s].pc = "sec_lookup"
    /\ LET op == CurOp(s)
           found == FindSection(View(s), op.section_name)
           row == CHOOSE r \in found : TRUE
           after == IF op.action = "ADD" THEN "bul_lookup" ELSE "bul_write"
       IN  IF found = {}
           THEN /\ sess' = [sess EXCEPT ![s].pc = "sec_write"]
                /\ cdb' = cdb
           ELSE IF Truthy(op.section_display_name)
                   /\ row.display_name # op.section_display_name
           THEN Raise(s, ServiceUpdate(row.id,
                            [display_name |-> op.section_display_name]))
           ELSE /\ sess' = [sess EXCEPT ![s].secId = row.id, ![s].pc = after]
                /\ cdb' = cdb
    /\ UNCHANGED <<seqVars, valVars, reader>>

\* get_or_create: _next_ordering and the insert of the section.
SectionWrite(s) ==
    /\ sess[s].pc = "sec_write"
    /\ WaitsFor(s) = {}
    /\ LET op == CurOp(s)
           after == IF op.action = "ADD" THEN "bul_lookup" ELSE "bul_write"
           row == [id |-> FreshId(AllSectionRows),
                   name |-> op.section_name,
                   display_name |->
                       IF Truthy(op.section_display_name)
                       THEN op.section_display_name
                       ELSE Title(op.section_name),
                   description |-> None,
                   ordering |-> NextOrdering(View(s)),
                   metadata |-> EmptyDict]
           ins == InsertSection(View(s), row)
       IN  IF ins.error # None
           THEN Raise(s, ins.error)
           ELSE /\ sess' = [sess EXCEPT ![s] =
                      [@ EXCEPT !.secId = row.id, !.pc = after,
                                !.pend.secIns = @ \cup {row}]]
                /\ cdb' = cdb
    /\ UNCHANGED <<seqVars, valVars, reader>>

\* get_one_or_none(bullet_id == delta.bullet_id) and what follows it without
\* another store call.
BulletLookup(s) ==
    /\ sess[s].pc = "bul_lookup"
    /\ LET rec == sess[s]
           op == CurOp(s)
           found == FindBullet(View(s), op.bullet_id)
           skipped == Advance([rec EXCEPT !.result.skipped = Append(@, op.bullet_id)])
       IN  sess' = [sess EXCEPT ![s] =
              IF op.action = "ADD"
              THEN [rec EXCEPT !.bul = found, !.pc = "bul_write"]
              ELSE IF found = {} THEN skipped
              ELSE IF op.action = "UPDATE" /\ Truthy(op.section_name)
              THEN [rec EXCEPT !.bul = found, !.pc = "sec_lookup"]
              ELSE IF op.action = "UPDATE"
                      /\ DOMAIN BulletData(rec, op) = {}
              THEN Advance([rec EXCEPT !.result.updated = Append(@, op.bullet_id)])
              ELSE [rec EXCEPT !.bul = found, !.pc = "bul_write"]]
    /\ UNCHANGED cdb
    /\ UNCHANGED <<seqVars, valVars, reader>>

\* The result list an operation that found its bullet is reported under.
Report(result, op) ==
    IF op.action = "ADD" THEN [result EXCEPT !.added = Append(@, op.bullet_id)]
    ELSE IF op.action = "UPDATE"
    THEN [result EXCEPT !.updated = Append(@, op.bullet_id)]
    ELSE IF op.action = "TAG"
    THEN [result EXCEPT !.tagged = Append(@, op.bullet_id)]
    ELSE [result EXCEPT !.removed = Append(@, op.bullet_id)]

\* The insert, update or delete of the bullet row.
BulletWrite(s) ==
    /\ sess[s].pc = "bul_write"
    /\ WaitsFor(s) = {}
    /\ LET rec == sess[s]
           op == CurOp(s)
           data == BulletData(rec, op)
       IN  IF rec.bul = {}
           THEN LET row == [id |-> FreshId(AllBulletRows),
                            created_at |-> NextCreatedAt(AllBulletRows),
                            bullet_id |-> data.bullet_id,
                            content |-> data.content,
                            section_id |-> data.section_id,
                            metadata |-> data.metadata,
                            helpful_count |-> data.helpful_count,
                            harmful_count |-> data.harmful_count]
                    ins == InsertBullet(View(s), row)
                IN  IF ins.error # None
                    THEN Raise(s, ins.error)
                    ELSE /\ sess' = [sess EXCEPT ![s] =
                               Advance([rec EXCEPT !.pend.bulIns = @ \cup {row},
                                                   !.result = Report(@, op)])]
                         /\ cdb' = cdb
           ELSE LET loaded == CHOOSE r \in rec.bul : TRUE
                    own == loaded.id \in Ids(rec.pend.bulIns)
                IN  IF loaded.id \notin Ids(View(s).bullets)
                    THEN Raise(s, "NotFoundError")
                    ELSE IF op.action = "REMOVE"
                    THEN /\ sess' = [sess EXCEPT ![s] =
                               Advance([rec EXCEPT
                                  !.pend.bulIns = {r \in @ : r.id # loaded.id},
                                  !.pend.bulUpd = {r \in @ : r.id # loaded.id},
                                  !.pend.bulDel = IF own THEN @ ELSE @ \cup {loaded.id},
                                  !.result = Report(@, op)])]
                         /\ cdb' = cdb
                    ELSE LET current == RowOf(View(s).bullets, loaded.id)
                             image == ChangedImage(current, loaded, data)
                         IN  /\ sess' = [sess EXCEPT ![s] =
                                   Advance([rec EXCEPT
                                      !.pend.bulIns =
                                          IF own
                                          THEN {r \in @ : r.id # loaded.id} \cup {image}
                                          ELSE @,
                                      !.pend.bulUpd =
                                          IF own \/ image = current THEN @
                                          ELSE {r \in @ : r.id # loaded.id} \cup {image},
                                      !.result = Report(@, op)])]
                             /\ cdb' = cdb
    /\ UNCHANGED <<seqVars, valVars, reader>>

\* After the loop: the revision insert when result.has_changes(), then the
\* commit on leaving the block.
Finish(s) ==
    /\ sess[s].pc = "finish"
    /\ LET rec == sess[s]
           id == FreshId(AllRevisionRows)
           pend == IF HasChanges(rec.result)
                   THEN [rec.pend EXCEPT !.revIns = @ \cup {RevisionRow(id, rec.ops)}]
                   ELSE rec.pend
           outer == [committed |-> cdb, store |-> cdb, inTx |-> FALSE]
           exit == TransactionExit(outer, Overlay(cdb, pend), None, FALSE)
       IN  /\ cdb' = exit.committed
           /\ sess' = [sess EXCEPT ![s] =
                 [rec EXCEPT !.pc = "done", !.pend = NoPending,
                             !.result.revision_id =
                                 IF HasChanges(rec.result) THEN id ELSE NoRevision,
                             !.before = cdb, !.after = exit.committed]]
    /\ UNCHANGED <<seqVars, valVars, reader>>

\* Two transactions wait for each other: the database aborts one of them.
DeadlockAbort(s) ==
    /\ \E t \in WaitsFor(s) : s \in WaitsFor(t)
    /\ Raise(s, "DeadlockError")
    /\ UNCHANGED <<seqVars, valVars, reader>>

NextConc ==
    \E s \in Sessions :
        \/ Begin(s)
        \/ SectionLookup(s)
        \/ SectionWrite(s)
        \/ BulletLookup(s)
        \/ BulletWrite(s)
        \/ Finish(s)
        \/ DeadlockAbort(s)

InitConc ==
    /\ committed = EmptyStore
    /\ store = EmptyStore
    /\ inTx = FALSE
    /\ calls = 0
    /\ call = NoCall
    /\ cdb \in SeedStores
    /\ sess = [s \in Sessions |-> IdleSession]
    /\ reader = IdleReader
    /\ payload = NoPayload
    /\ verdict = "unset"

SpecConc == InitConc /\ [][NextConc]_vars

(***************************************************************************)
(* get_snapshot next to the concurrent calls of apply_deltas: the read of  *)
(* the sections and the read of the bullets are two statements, each of    *)
(* which sees the rows committed when it runs.                             *)
(***************************************************************************)
\* The section_names arguments of the model, as sets of names: the empty
\* set stands for None and for an empty sequence, which `if section_names`
\* treats alike.
NameFilters == {{}, {"s1"}}

\* The object the identity map holds for the row r.  Primary keys are not
\* reused in the store; the keys of the model are, after a delete, so the
\* object is told by the key and the bullet_id together.
Loaded(seen, r) == {q \in seen : q.id = r.id /\ q.bullet_id = r.bullet_id}

\* sections = await section_service.list(statement=section_stmt).  The
\* sections come with their bullets (lazy="selectin"), which stay in the
\* identity map of the session unless the library expunges them (cached).
ReadSections ==
    /\ reader.pc = "idle"
    /\ \E section_names \in NameFilters : \E cached \in BOOLEAN :
          LET rows == SelectSections(cdb, section_names)
          IN  reader' = [reader EXCEPT
                           !.pc = "bullets",
                           !.names = section_names,
                           !.cached = cached,
                           !.sections = SectionsInOrder(rows),
                           !.seen = {b \in cdb.bullets : b.section_id \in Ids(rows)}]
    /\ UNCHANGED <<cdb, sess>>
    /\ UNCHANGED <<seqVars, valVars>>

\* bullets = await self.list(statement=bullet_stmt), and the two loops.  A
\* row whose object is in the identity map keeps the values loaded before.
ReadBullets ==
    /\ reader.pc = "bullets"
    /\ LET selected == SelectBullets(cdb, reader.names)
           rows == {IF reader.cached /\ Loaded(reader.seen, r) # {}
                    THEN CHOOSE q \in Loaded(reader.seen, r) : TRUE
                    ELSE r : r \in selected}
           bullets == BulletsInOrder(rows)
           listed == [i \in 1..Len(reader.sections) |->
                        PlaybookSection(reader.sections[i], <<>>)]
       IN  reader' = [reader EXCEPT
                        !.pc = "done",
                        !.read = {r.bullet_id : r \in selected},
                        !.snapshot =
                            SnapshotBullets([sections |-> listed, bullets |-> <<>>],
                                            cdb, bullets, Len(bullets))]
    /\ UNCHANGED <<cdb, sess>>
    /\ UNCHANGED <<seqVars, valVars>>

NextSnap ==
    \/ NextConc
    \/ ReadSections
    \/ ReadBullets

SpecSnap == InitConc /\ [][NextSnap]_vars

(***************************************************************************)
(* Properties.  They speak of the latest apply_deltas call: its submitted  *)
(* operations, the store the session saw before (pre) and after (post),    *)
(* and what it returned or raised.                                         *)
(***************************************************************************)
Made == calls > 0
Returned == Made /\ call.error = None
Deduped == DeduplicateOps(call.operations)
BulletRow(st, bullet_id) == CHOOSE r \in FindBullet(st, bullet_id) : TRUE
HasBullet(st, bullet_id) == FindBullet(st, bullet_id) # {}
SameKey(operations) ==
    \A i \in 1..Len(operations) : DedupeKey(operations[i]) = DedupeKey(operations[1])

RECURSIVE SumDeltas(_, _, _)
SumDeltas(operations, field, n) ==
    IF n = 0 THEN 0 ELSE SumDeltas(operations, field, n - 1) + operations[n][field]

\* C1: when a store call of a batch fails, apply_deltas raises and the store
\* is exactly as before the call: no section, bullet, counter or revision
\* written by the earlier operations of the batch remains.
C1_AtomicOnError ==
    Made =>
      /\ (call.failAt \in 1..Len(Deduped) => call.error # None)
      /\ (call.error # None =>
            /\ call.post = call.pre
            /\ call.postCommitted = call.preCommitted)

C1_Witness ==
    /\ Made
    /\ call.error # None
    /\ Len(Deduped) = 2
    /\ call.failAt = 2
    /\ RunLoop(call.pre, Deduped, 1, 0).st # call.pre
    /\ call.post = call.pre

\* C2: every stored bullet has helpful_count >= 0 and harmful_count >= 0.
C2_CountsNonNegative ==
    \A r \in store.bullets \cup committed.bullets \cup call.post.bullets :
        r.helpful_count >= 0 /\ r.harmful_count >= 0

C2_Witness ==
    /\ Returned
    /\ call.operations = <<Op("TAG", "b1", None, None, None, None, 0, -1)>>
    /\ HasBullet(call.pre, "b1")
    /\ BulletRow(call.pre, "b1").helpful_count = 0
    /\ BulletRow(call.pre, "b1").harmful_count = 0
    /\ BulletRow(call.post, "b1").helpful_count = 0
    /\ BulletRow(call.post, "b1").harmful_count = 0
    /\ call.result.tagged = <<"b1">>

\* C3: a revision is written if and only if the batch changed a bullet or a
\* section of the store.
C3_RevisionIffObservableChange ==
    Returned =>
      ((call.post.revisions # call.pre.revisions)
         <=> (\/ call.post.bullets # call.pre.bullets
              \/ call.post.sections # call.pre.sections))

\* The section an operation names is new to the store, or carries the
\* display name the operation gives, or the operation gives none: the state
\* in which the same operation, applied before, has left the section.
SectionAsNamed(st, op) ==
    \A r \in FindSection(st, op.section_name) :
        ~Truthy(op.section_display_name) \/ r.display_name = op.section_display_name

\* C4: an ADD submitted alone for a bullet_id never raises a duplicate-key
\* error, also when an earlier batch has applied the same ADD and the bullet
\* exists: afterwards the store holds exactly one bullet with that id, with
\* the content of this ADD, an existing row is updated in place, and the id
\* is reported under result.added.
C4_IdempotentAdd ==
    \A op \in Ops :
      (/\ Made /\ op.action = "ADD" /\ call.operations = <<op>>
       /\ call.failAt = 0) =>
        /\ call.error # "IntegrityError"
        /\ SectionAsNamed(call.pre, op) =>
             /\ call.error = None
             /\ call.result.added = <<op.bullet_id>>
             /\ Cardinality(FindBullet(call.post, op.bullet_id)) = 1
             /\ BulletRow(call.post, op.bullet_id).content = op.content
             /\ HasBullet(call.pre, op.bullet_id) =>
                  /\ Cardinality(call.post.bullets) = Cardinality(call.pre.bullets)
                  /\ BulletRow(call.post, op.bullet_id).id
                       = BulletRow(call.pre, op.bullet_id).id

C4_Witness ==
    /\ calls = 2
    /\ Returned
    /\ call.operations = <<Op("ADD", "b1", "s1", None, "cA", None, 0, 0)>>
    /\ HasBullet(call.pre, "b1")
    /\ BulletRow(call.pre, "b1").content = "cA"
    /\ FindBullet(call.post, "b1") = FindBullet(call.pre, "b1")
    /\ call.result.added = <<"b1">>

\* C5: a batch made of several TAG operations for one existing bullet applies
\* one TAG with the summed deltas, and reports the bullet once under
\* result.tagged.
C5_TagsMerged ==
    (/\ Returned
     /\ Len(call.operations) >= 2
     /\ SameKey(call.operations)
     /\ call.operations[1].action = "TAG"
     /\ HasBullet(call.pre, call.operations[1].bullet_id)) =>
       LET b == call.operations[1].bullet_id
           n == Len(call.operations)
           old == BulletRow(call.pre, b)
       IN  /\ HasBullet(call.post, b)
           /\ BulletRow(call.post, b).helpful_count
                = Max(0, old.helpful_count
                           + SumDeltas(call.operations, "helpful_delta", n))
           /\ BulletRow(call.post, b).harmful_count
                = Max(0, old.harmful_count
                           + SumDeltas(call.operations, "harmful_delta", n))
           /\ call.result.tagged = <<b>>

C5_Witness ==
    /\ Returned
    /\ call.operations = <<Op("TAG", "b1", None, None, None, None, 1, 0),
                           Op("TAG", "b1", None, None, None, None, 1, 0)>>
    /\ HasBullet(call.pre, "b1")
    /\ BulletRow(call.post, "b1").helpful_count
         = BulletRow(call.pre, "b1").helpful_count + 2
    /\ call.result.tagged = <<"b1">>

\* C6: of the ADD, UPDATE or REMOVE operations of a batch that share
\* (action, bullet_id) only the last is applied: the call leaves the store
\* and returns the result that the last operation alone would.
C6_LastWins ==
    (/\ Made
     /\ call.failAt = 0
     /\ Len(call.operations) >= 2
     /\ SameKey(call.operations)
     /\ call.operations[1].action # "TAG") =>
       LET last == call.operations[Len(call.operations)]
           alone == ApplyDeltasOutcome(
                       [committed |-> call.preCommitted, store |-> call.pre,
                        inTx |-> call.nested], <<last>>, 0)
       IN  /\ call.error = alone.error
           /\ call.result = alone.result
           /\ call.post = alone.session.store
           /\ call.postCommitted = alone.session.committed

C6_Witness ==
    /\ Returned
    /\ call.operations = <<Op("UPDATE", "b1", None, None, None, "m1", 0, 0),
                           Op("UPDATE", "b1", None, None, "cB", None, 0, 0)>>
    /\ HasBullet(call.pre, "b1")
    /\ BulletRow(call.pre, "b1").metadata # "m1"
    /\ BulletRow(call.pre, "b1").content # "cB"
    /\ BulletRow(call.post, "b1").metadata = BulletRow(call.pre, "b1").metadata
    /\ BulletRow(call.post, "b1").content = "cB"

\* C9: an UPDATE, TAG or REMOVE whose bullet does not exist raises nothing,
\* is reported under result.skipped and changes nothing: when the other
\* operations of the batch raise nothing themselves, the batch returns,
\* reports them as they alone would be reported and leaves the sections and
\* bullets as they alone would, with a revision when they alone would write
\* one; an UPDATE of a missing bullet creates no section.
C9_MissingTargetSkipped ==
    (Made /\ call.failAt = 0 /\ Deduped # <<>>) =>
      LET D == Deduped
          n == Len(D)
          first == D[1]
          last == D[n]
          rest == WriteRevision(RunLoop(call.pre, Tail(D), n - 1, 0), Tail(D), 0)
          front == RunLoop(call.pre, D, n - 1, 0)
      IN  /\ (/\ first.action # "ADD"
              /\ ~HasBullet(call.pre, first.bullet_id)
              /\ rest.error = None) =>
                /\ call.error = None
                /\ call.result.skipped = <<first.bullet_id>> \o rest.result.skipped
                /\ call.result.added = rest.result.added
                /\ call.result.updated = rest.result.updated
                /\ call.result.tagged = rest.result.tagged
                /\ call.result.removed = rest.result.removed
                /\ call.post.bullets = rest.st.bullets
                /\ call.post.sections = rest.st.sections
                /\ Ids(call.post.revisions) = Ids(rest.st.revisions)
          /\ (/\ last.action # "ADD"
              /\ front.error = None
              /\ ~HasBullet(front.st, last.bullet_id)) =>
                /\ call.error = None
                /\ call.result.skipped = Append(front.result.skipped, last.bullet_id)
                /\ call.post.bullets = front.st.bullets
                /\ call.post.sections = front.st.sections

C9_Witness ==
    /\ Returned
    /\ call.operations = <<Op("UPDATE", "b1", "s2", "d2", None, None, 0, 0),
                           Op("ADD", "b2", "s1", None, "cB", None, 1, 0)>>
    /\ ~HasBullet(call.pre, "b1")
    /\ FindSection(call.pre, "s2") = {}
    /\ FindSection(call.post, "s2") = {}
    /\ call.result.skipped = <<"b1">>
    /\ call.result.added = <<"b2">>
    /\ HasBullet(call.post, "b2")

\* C10: a call that returns writes exactly one revision, and returns its id,
\* when any of added/updated/tagged/removed is non-empty; otherwise it writes
\* none, returns revision_id None and leaves the store unchanged.  An empty
\* batch returns the empty result.
C10_RevisionIffHasChanges ==
    Returned =>
      LET changed == \/ call.result.added # <<>>
                     \/ call.result.updated # <<>>
                     \/ call.result.tagged # <<>>
                     \/ call.result.removed # <<>>
      IN  /\ changed =>
                /\ call.result.revision_id # NoRevision
                /\ \E row \in call.post.revisions :
                      /\ row.id = call.result.revision_id
                      /\ row \notin call.pre.revisions
                      /\ call.post.revisions = call.pre.revisions \cup {row}
          /\ ~changed =>
                /\ call.result.revision_id = NoRevision
                /\ call.post = call.pre
                /\ call.postCommitted = call.preCommitted
          /\ call.operations = <<>> => call.result = EmptyResult

C10_Witness ==
    /\ Returned
    /\ Len(call.result.skipped) = 2
    /\ call.result.added = <<>>
    /\ call.result.updated = <<>>
    /\ call.result.tagged = <<>>
    /\ call.result.removed = <<>>
    /\ call.result.revision_id = NoRevision
    /\ call.pre.bullets # {}
    /\ call.post = call.pre

\* What a caller can observe of a store: the sections and the bullets
\* without their surrogate keys, each bullet with the name of its section,
\* and the number of revisions.
Observable(st) ==
    [sections |-> {[name |-> r.name, display_name |-> r.display_name,
                    description |-> r.description, ordering |-> r.ordering,
                    metadata |-> r.metadata] : r \in st.sections},
     bullets |-> {[bullet_id |-> b.bullet_id, content |-> b.content,
                   section |-> (CHOOSE r \in st.sections : r.id = b.section_id).name,
                   metadata |-> b.metadata,
                   helpful_count |-> b.helpful_count,
                   harmful_count |-> b.harmful_count] : b \in st.bullets},
     revisions |-> Cardinality(st.revisions)]

\* The outcome of the batch of session t had it run alone on the store it
\* committed to.
Alone(t) ==
    ApplyDeltasOutcome([committed |-> sess[t].before, store |-> sess[t].before,
                        inTx |-> FALSE], sess[t].ops, 0)

\* Session s is about to insert a bullet its lookup did not find, and a
\* bullet with that bullet_id has been committed since and is visible to it.
LostAddRace(s) ==
    /\ sess[s].pc = "bul_write"
    /\ sess[s].bul = {}
    /\ \E r \in View(s).bullets : r.bullet_id = CurOp(s).bullet_id

\* C7: in every reachable state, under any interleaving of concurrent
\* apply_deltas calls, the store holds at most one bullet per bullet_id,
\* whatever the sections of the bullets: in the committed store and in the
\* store as each open transaction sees it.
C7_BulletIdUnique ==
    /\ \A r1, r2 \in cdb.bullets : r1.bullet_id = r2.bullet_id => r1 = r2
    /\ \A s \in Sessions :
          \A r1, r2 \in View(s).bullets : r1.bullet_id = r2.bullet_id => r1 = r2

\* Two calls raced to ADD the same bullet_id into different sections: one
\* has committed it, the other has raised.
C7_Witness ==
    \E s, t \in Sessions :
        /\ s # t
        /\ sess[s].pc = "done" /\ sess[t].pc = "failed"
        /\ sess[s].ops = <<Op("ADD", "b1", "s1", None, "cA", None, 0, 0)>>
        /\ sess[t].ops = <<Op("ADD", "b1", "s2", "d1", "cB", "m1", -1, 1)>>
        /\ \E r \in cdb.bullets : r.bullet_id = "b1"

\* C8: when two concurrent batches ADD the same never-seen bullet_id and the
\* lookup of each finds nothing, the insert of the later one, made once the
\* other has committed the bullet, raises the unique-constraint error out of
\* apply_deltas; the call makes no further step (no retry), its transaction
\* is rolled back so that the store holds nothing of its batch, no other
\* operation and no revision, and holds exactly what the other batch
\* produces when run alone, which reports the revision it wrote.
C8_AddRaceLoserRollsBack ==
    [][\A s \in Sessions :
          /\ (LostAddRace(s) /\ sess'[s] # sess[s]) =>
                /\ sess'[s].pc = "failed"
                /\ sess'[s].error = "IntegrityError"
                /\ sess'[s].pend = NoPending
                /\ cdb' = cdb
                /\ \A t \in Sessions \ {s} :
                      /\ sess[t].pc = "done"
                      /\ sess[t].error = None
                      /\ sess[t].after = cdb
                      /\ Observable(cdb) = Observable(Alone(t).session.committed)
                      /\ Alone(t).error = None
                      /\ [sess[t].result EXCEPT !.revision_id = NoRevision]
                            = [Alone(t).result EXCEPT !.revision_id = NoRevision]
                      /\ sess[t].result.revision_id \in Ids(cdb.revisions)
          /\ sess[s].pc = "failed" => sess'[s] = sess[s]]_vars

\* The losing batch had added bullet b2 to a new section before its ADD of
\* b1 lost the race: neither b2 nor the section is in the store, which holds
\* the bullet and the one revision of the other batch.
C8_Witness ==
    \E s, t \in Sessions :
        /\ s # t
        /\ sess[s].pc = "failed" /\ sess[s].error = "IntegrityError"
        /\ sess[s].ops = <<Op("ADD", "b2", "s1", None, "cB", None, 1, 0),
                           Op("ADD", "b1", "s1", None, "cA", None, 0, 0)>>
        /\ sess[s].i = 2
        /\ sess[t].pc = "done"
        /\ sess[t].ops = <<Op("ADD", "b1", "s2", "d1", "cB", "m1", -1, 1)>>
        /\ {r.bullet_id : r \in cdb.bullets} = {"b1"}
        /\ {r.name : r \in cdb.sections} = {"s2"}
        /\ Cardinality(cdb.revisions) = 1

\* The number of entries of a sequence equal to x.
Count(seq, x) == Cardinality({i \in 1..Len(seq) : seq[i] = x})

\* C11: in every store a sequence of batches reaches, the snapshot taken
\* with no filter has one entry for every stored section and one for every
\* stored bullet, and each bullet id is listed once in the bullet_ids of the
\* section that owns the bullet and in no other list.
C11_SnapshotComplete ==
    LET snapshot == Snapshot(store, {})
        S == snapshot.sections
        B == snapshot.bullets
    IN  /\ Len(S) = Cardinality(store.sections)
        /\ {S[i].name : i \in 1..Len(S)} = {r.name : r \in store.sections}
        /\ Len(B) = Cardinality(store.bullets)
        /\ {B[i].bullet_id : i \in 1..Len(B)} = {b.bullet_id : b \in store.bullets}
        /\ \A b \in store.bullets : \A i \in 1..Len(S) :
              Count(S[i].bullet_ids, b.bullet_id)
                 = IF S[i].name = SectionOf(store, b).name THEN 1 ELSE 0

\* A snapshot was taken of a store with two sections, one of them emptied
\* by the move of bullet b1, the other holding b1 and b2.
C11_Witness ==
    /\ inTx
    /\ calls = 2
    /\ Cardinality(store.sections) = 2
    /\ Cardinality(store.bullets) = 2
    /\ \E i \in 1..2 :
          /\ Snapshot(store, {}).sections[i].bullet_ids = <<>>
          /\ Len(Snapshot(store, {}).sections[3 - i].bullet_ids) = 2

\* C12: a batch that comes to one TAG with deltas (dh, dm) on an existing
\* bullet with counts (h, m) stores exactly (max(0, h + dh), max(0, m + dm)),
\* each counter clamped on its own, and changes no other field of the bullet.
C12_TagClampsEachCounter ==
    (/\ Returned
     /\ Len(Deduped) = 1
     /\ Deduped[1].action = "TAG"
     /\ HasBullet(call.pre, Deduped[1].bullet_id)) =>
       LET t == Deduped[1]
           old == BulletRow(call.pre, t.bullet_id)
           new == BulletRow(call.post, t.bullet_id)
           h == old.helpful_count + t.helpful_delta
           m == old.harmful_count + t.harmful_delta
       IN  /\ HasBullet(call.post, t.bullet_id)
           /\ new.helpful_count = IF h < 0 THEN 0 ELSE h
           /\ new.harmful_count = IF m < 0 THEN 0 ELSE m
           /\ new = [old EXCEPT !.helpful_count = new.helpful_count,
                                !.harmful_count = new.harmful_count]

\* A TAG with a positive helpful delta and a negative harmful delta on a
\* bullet at (0, 0): the helpful counter rises, the harmful one stays at 0.
C12_Witness ==
    /\ Returned
    /\ Len(Deduped) = 1
    /\ Deduped[1].action = "TAG"
    /\ Deduped[1].helpful_delta = 1 /\ Deduped[1].harmful_delta = -1
    /\ HasBullet(call.pre, "b1")
    /\ BulletRow(call.pre, "b1").helpful_count = 0
    /\ BulletRow(call.pre, "b1").harmful_count = 0
    /\ BulletRow(call.post, "b1").helpful_count = 1
    /\ BulletRow(call.post, "b1").harmful_count = 0

\* C13: no step modifies or deletes a committed revision: every committed
\* revision row stays in the committed log as it was written (operations,
\* applied_by, description, metadata), and a call of apply_deltas adds at
\* most one row to the log the session sees and takes none away.
C13_RevisionsAppendOnly ==
    [][/\ committed.revisions \subseteq committed'.revisions
       /\ calls' # calls =>
             /\ store.revisions \subseteq store'.revisions
             /\ Cardinality(store'.revisions \ store.revisions) <= 1
             /\ Ids(store'.revisions \ store.revisions)
                   \cap Ids(store.revisions) = {}]_vars

\* The second call has committed its revision next to that of the first,
\* whose operations are still those of the first call.
C13_Witness ==
    /\ calls = 2
    /\ Returned
    /\ ~call.nested
    /\ Cardinality(call.preCommitted.revisions) = 1
    /\ Cardinality(committed.revisions) = 2
    /\ call.preCommitted.revisions \subseteq committed.revisions
    /\ \E r \in call.preCommitted.revisions : r.operations # Deduped

\* The bullet ids a batch finds in the store and leaves in it.
Kept == {b \in BulletIds : HasBullet(call.pre, b) /\ HasBullet(call.post, b)}

\* C14: for every bullet, helpful_count and harmful_count never decrease
\* from one batch to the next for as long as the bullet exists.
C14_CountersNeverDecrease ==
    Returned =>
      \A b \in Kept :
        /\ BulletRow(call.post, b).helpful_count >= BulletRow(call.pre, b).helpful_count
        /\ BulletRow(call.post, b).harmful_count >= BulletRow(call.pre, b).harmful_count

\* C14 (amended): a counter of a bullet that exists before and after a batch
\* decreases only when the batch carries a TAG of the bullet with a negative
\* delta for that counter, or an ADD of the bullet, which sets both counters
\* anew; no other operation lowers a counter.
C14_CountersDecreaseOnlyByNegativeTagOrAdd ==
    Returned =>
      \A b \in Kept :
        LET old == BulletRow(call.pre, b)
            new == BulletRow(call.post, b)
            Lowers(field) ==
                \E i \in 1..Len(Deduped) :
                    /\ Deduped[i].bullet_id = b
                    /\ \/ Deduped[i].action = "ADD"
                       \/ Deduped[i].action = "TAG" /\ Deduped[i][field] < 0
        IN  /\ new.helpful_count < old.helpful_count => Lowers("helpful_delta")
            /\ new.harmful_count < old.harmful_count => Lowers("harmful_delta")

\* A TAG with helpful_delta = -1 has taken the helpful counter of b1 from
\* 1 to 0.
C14_Witness ==
    /\ Returned
    /\ call.operations = <<Op("TAG", "b1", None, None, None, None, -1, 0)>>
    /\ "b1" \in Kept
    /\ BulletRow(call.pre, "b1").helpful_count = 1
    /\ BulletRow(call.post, "b1").helpful_count = 0

\* Whether a string field of a payload holds a non-empty string.
NonEmpty(x) == x \notin {None, ""}

\* C15: the construction of a DeltaOperation with a valid bullet_id fails
\* exactly when the payload its action requires is missing: an ADD without
\* a non-empty section_name or without non-empty content, an UPDATE with
\* none of section_name, section_display_name, content, metadata present, a
\* TAG with both deltas 0; every other combination is accepted.
C15_FailsExactlyWhenPayloadMissing ==
    (verdict # "unset" /\ IdLength(payload.bullet_id) = 2) =>
      (verdict = "ValidationError" <=>
         \/ /\ payload.action = "ADD"
            /\ ~(NonEmpty(payload.section_name) /\ NonEmpty(payload.content))
         \/ /\ payload.action = "UPDATE"
            /\ payload.section_name = None
            /\ payload.section_display_name = None
            /\ payload.content = None
            /\ payload.metadata = None
         \/ /\ payload.action = "TAG"
            /\ payload.helpful_delta = 0
            /\ payload.harmful_delta = 0)

\* C15 (amended): the construction fails exactly when bullet_id is empty or
\* longer than 128 characters, or the action is ADD and section_name or
\* content is missing or empty, or the action is UPDATE and section_name,
\* section_display_name and content are each missing or empty and metadata
\* is missing (an empty metadata dictionary counts as present), or the
\* action is TAG and both deltas are 0; every other payload is accepted.
C15_FailsExactlyWhenPayloadEmpty ==
    verdict # "unset" =>
      (verdict = "ValidationError" <=>
         \/ payload.bullet_id = ""
         \/ payload.bullet_id = LongId
         \/ /\ payload.action = "ADD"
            /\ ~(NonEmpty(payload.section_name) /\ NonEmpty(payload.content))
         \/ /\ payload.action = "UPDATE"
            /\ ~NonEmpty(payload.section_name)
            /\ ~NonEmpty(payload.section_display_name)
            /\ ~NonEmpty(payload.content)
            /\ payload.metadata = None
         \/ /\ payload.action = "TAG"
            /\ payload.helpful_delta = 0
            /\ payload.harmful_delta = 0)

\* An UPDATE whose only payload is an empty content string was rejected.
C15_Witness ==
    /\ verdict = "ValidationError"
    /\ payload = Op("UPDATE", "b1", None, None, "", None, 0, 0)

\* C16: a batch applied while the session is inside a transaction runs in a
\* nested scope: when it fails, the session sees the store as it was when the
\* batch began (the caller's earlier uncommitted writes kept, the writes of
\* the batch undone), nothing is committed by the call, and whatever the
\* caller does next (commit or roll back) the committed store is either the
\* store as the batch found it or the store committed before.
C16_NestedFailureKeepsOuterWrites ==
    (Made /\ call.nested /\ call.error # None) =>
      /\ call.post = call.pre
      /\ call.postCommitted = call.preCommitted
      /\ store \in {call.pre, call.preCommitted}
      /\ committed \in {call.pre, call.preCommitted}

C16_Witness ==
    /\ Made
    /\ call.nested
    /\ call.error # None
    /\ call.failAt = 2
    /\ call.pre # call.preCommitted
    /\ RunLoop(call.pre, Deduped, 1, 0).st # call.pre
    /\ ~inTx
    /\ committed = call.pre
    /\ store = call.pre

\* C17: two concurrent batches on one bullet are not serialized; each column
\* ends with the value of the last committed transaction that wrote it.  Two
\* concurrent batches TAG(b1, +1) on a bullet at helpful_count c, both
\* committed, leave c + 1 or c + 2; a TAG(b1, +1) concurrent with an UPDATE
\* that moves b1 to another section leaves count c + 1 in the new section.
TagOne == <<Op("TAG", "b1", None, None, None, None, 1, 0)>>
MoveOne == <<Op("UPDATE", "b1", "s2", "d2", None, None, 0, 0)>>

\* The store the two sessions started from: what the first to end found.
ConcStart ==
    LET first == CHOOSE t \in Sessions :
                    \A u \in Sessions \ {t} : sess[t].after = sess[u].before
    IN  sess[first].before

BothDone == \A t \in Sessions : sess[t].pc = "done"

C17_LastWriterWinsPerField ==
    (BothDone /\ HasBullet(ConcStart, "b1")) =>
      LET c == BulletRow(ConcStart, "b1").helpful_count
          start == BulletRow(ConcStart, "b1")
      IN  /\ (\A t \in Sessions : sess[t].ops = TagOne) =>
                /\ HasBullet(cdb, "b1")
                /\ BulletRow(cdb, "b1").helpful_count \in {c + 1, c + 2}
                /\ BulletRow(cdb, "b1") =
                      [start EXCEPT !.helpful_count =
                                       BulletRow(cdb, "b1").helpful_count]
          /\ (\E t, u \in Sessions : sess[t].ops = TagOne /\ sess[u].ops = MoveOne) =>
                /\ HasBullet(cdb, "b1")
                /\ BulletRow(cdb, "b1").helpful_count = c + 1
                /\ \E r \in cdb.sections :
                      /\ r.name = "s2"
                      /\ BulletRow(cdb, "b1") =
                            [start EXCEPT !.helpful_count = c + 1,
                                          !.section_id = r.id]

\* The lost update: both TAG batches committed, and the count rose by one.
C17_Witness ==
    /\ BothDone
    /\ \A t \in Sessions : sess[t].ops = TagOne /\ sess[t].result.tagged = <<"b1">>
    /\ HasBullet(ConcStart, "b1")
    /\ BulletRow(cdb, "b1").helpful_count =
          BulletRow(ConcStart, "b1").helpful_count + 1

\* C18: no batch deletes a section.  Every section name of the committed
\* store is in the committed store after every step, and every section name
\* the session sees before a call of apply_deltas it sees after it; after a
\* call that returned, each section left without bullets (by REMOVE, or by
\* an UPDATE that moved its last bullet away) is in the snapshot with an
\* empty bullet_ids list.
Names(st) == {r.name : r \in st.sections}

EmptySectionsListed(st) ==
    LET snapshot == Snapshot(st, {})
    IN  \A r \in st.sections :
           (\A b \in st.bullets : b.section_id # r.id) =>
              \E i \in 1..Len(snapshot.sections) :
                 /\ snapshot.sections[i].name = r.name
                 /\ snapshot.sections[i].bullet_ids = <<>>

C18_SectionsNeverDeleted ==
    [][/\ Names(committed) \subseteq Names(committed')
       /\ calls' # calls =>
             /\ Names(store) \subseteq Names(store')
             /\ EmptySectionsListed(store')]_vars

\* The last bullet of s1 was removed, and the emptied section is committed.
C18_Witness ==
    /\ Returned
    /\ call.operations = <<Op("REMOVE", "b1", None, None, None, None, 0, 0)>>
    /\ call.result.removed = <<"b1">>
    /\ \E r \in call.pre.sections :
          /\ r.name = "s1"
          /\ BulletRow(call.pre, "b1").section_id = r.id
          /\ r \in committed.sections
    /\ call.post.bullets = {}
    /\ committed = call.post
    /\ EmptySectionsListed(committed)

\* C19: the sections a call of apply_deltas creates take the orderings that
\* follow the greatest ordering of the sections that were there (from 1 in an
\* empty store), one each: every new section has an ordering greater than
\* that of every section created before it and sorts after it.
TopOrdering(rows) ==
    IF rows = {} THEN 0
    ELSE CHOOSE n \in {r.ordering : r \in rows} : \A r \in rows : r.ordering <= n

C19_NewSectionOrderedLast ==
    [][calls' # calls =>
         LET old == store.sections
             new == store'.sections \ store.sections
         IN  /\ {r.ordering : r \in new} =
                   (TopOrdering(old) + 1)..(TopOrdering(old) + Cardinality(new))
             /\ Cardinality({r.ordering : r \in new}) = Cardinality(new)
             /\ \A r \in new : \A q \in old :
                    /\ r.ordering > q.ordering
                    /\ SectionBefore(q, r)]_vars

\* A second call added a section to a store that had one: its ordering is 2.
C19_Witness ==
    /\ calls = 2
    /\ Returned
    /\ \E q \in call.pre.sections : q.ordering = 1
    /\ \E r \in call.post.sections \ call.pre.sections :
          /\ r.ordering = 2
          /\ r.name = "s1"

\* C20: when an ADD, or an UPDATE of a stored bullet, names an existing
\* section with a display name different from the stored one, the call
\* succeeds and that section has the new display_name, its other columns and
\* the other sections unchanged; when the display name is absent or equal
\* to the stored one, the sections are left as they were.
C20_DisplayNameUpdatedInPlace ==
    (/\ Made
     /\ call.failAt = 0
     /\ Len(Deduped) = 1
     /\ Deduped[1].action \in {"ADD", "UPDATE"}
     /\ Truthy(Deduped[1].section_name)
     /\ FindSection(call.pre, Deduped[1].section_name) # {}
     /\ (Deduped[1].action = "UPDATE" => HasBullet(call.pre, Deduped[1].bullet_id))) =>
       LET op == Deduped[1]
           old == CHOOSE r \in FindSection(call.pre, op.section_name) : TRUE
       IN  IF Truthy(op.section_display_name)
              /\ op.section_display_name # old.display_name
           THEN /\ call.error = None
                /\ call.post.sections =
                      (call.pre.sections \ {old})
                         \cup {[old EXCEPT !.display_name = op.section_display_name]}
           ELSE /\ call.error = None
                /\ call.post.sections = call.pre.sections

\* The bullet row an ADD leaves when it finds the bullet stored.
Readded(row, op, section_id) ==
    [row EXCEPT !.content = op.content,
                !.metadata = IF op.metadata = None THEN EmptyDict ELSE op.metadata,
                !.section_id = section_id,
                !.helpful_count = IF op.helpful_delta > 0 THEN op.helpful_delta ELSE 0,
                !.harmful_count = IF op.harmful_delta > 0 THEN op.harmful_delta ELSE 0]

\* C21: an ADD submitted alone whose bullet_id is stored succeeds; the bullet
\* then has the content, metadata, section and counts of the ADD
\* (helpful_count = max(helpful_delta, 0), harmful_count =
\* max(harmful_delta, 0), whatever earlier TAGs had accumulated), and the id
\* is under result.added and not under result.updated.
C21_AddOverwritesExisting ==
    \A op \in Ops :
      (/\ Made /\ op.action = "ADD" /\ call.operations = <<op>>
       /\ call.failAt = 0
       /\ HasBullet(call.pre, op.bullet_id)) =>
        /\ call.error = None
        /\ call.result.added = <<op.bullet_id>>
        /\ call.result.updated = <<>>
        /\ \E sec \in call.post.sections :
              /\ sec.name = op.section_name
              /\ call.post.bullets =
                   (call.pre.bullets \ {BulletRow(call.pre, op.bullet_id)})
                      \cup {Readded(BulletRow(call.pre, op.bullet_id), op, sec.id)}

\* An UPDATE that provides no content, no metadata and no section_name.
Inert(op) ==
    /\ op.action = "UPDATE"
    /\ op.content \in {None, ""}
    /\ op.metadata = None
    /\ op.section_name \in {None, ""}

\* C22: an UPDATE of a stored bullet that provides no content, no metadata
\* and no section_name (only section_display_name) raises nothing and leaves
\* every bullet and every section as the operations before it in the batch
\* left them; its bullet_id is added to result.updated and not to
\* result.skipped.
C22_InertUpdateReportedUpdated ==
    (Made /\ call.failAt = 0 /\ Deduped # <<>>) =>
      LET D == Deduped
          n == Len(D)
          front == RunLoop(call.pre, D, n - 1, 0)
      IN  (/\ Inert(D[n])
           /\ front.error = None
           /\ HasBullet(front.st, D[n].bullet_id)) =>
             /\ call.error = None
             /\ call.post.bullets = front.st.bullets
             /\ call.post.sections = front.st.sections
             /\ call.result.updated = Append(front.result.updated, D[n].bullet_id)
             /\ call.result.skipped = front.result.skipped

C22_Witness ==
    /\ Returned
    /\ call.operations = <<Op("UPDATE", "b1", None, "d1", None, None, 0, 0)>>
    /\ HasBullet(call.pre, "b1")
    /\ call.post.bullets = call.pre.bullets
    /\ call.post.sections = call.pre.sections
    /\ call.result.updated = <<"b1">>
    /\ call.result.skipped = <<>>

\* The place of the first operation of a batch with a given key.
FirstAt(operations, key) ==
    CHOOSE i \in 1..Len(operations) :
        /\ DedupeKey(operations[i]) = key
        /\ \A j \in 1..(i - 1) : DedupeKey(operations[j]) # key

\* The place of the last operation of a batch with a given key.
LastAt(operations, key) ==
    CHOOSE i \in 1..Len(operations) :
        /\ DedupeKey(operations[i]) = key
        /\ \A j \in (i + 1)..Len(operations) : DedupeKey(operations[j]) # key

\* C23: the deduplicated batch holds one operation for each (action,
\* bullet_id) of the submitted batch, in the order in which the keys first
\* appear; an ADD, UPDATE or REMOVE is the last one submitted with its key.
\* The operations are applied in that order: on a stored bullet x the batch
\* [UPDATE x (content A), REMOVE x, UPDATE x (content B)] updates x and then
\* removes it.
C23_DedupKeepsFirstPosition ==
    Made =>
      LET ops == call.operations
          D == Deduped
      IN  /\ {DedupeKey(D[i]) : i \in 1..Len(D)}
               = {DedupeKey(ops[i]) : i \in 1..Len(ops)}
          /\ \A i, j \in 1..Len(D) :
                i < j => FirstAt(ops, DedupeKey(D[i])) < FirstAt(ops, DedupeKey(D[j]))
          /\ \A i \in 1..Len(D) :
                D[i].action # "TAG" => D[i] = ops[LastAt(ops, DedupeKey(D[i]))]
          /\ (/\ ops = <<Op("UPDATE", "b1", None, None, "cA", None, 0, 0),
                         Op("REMOVE", "b1", None, None, None, None, 0, 0),
                         Op("UPDATE", "b1", None, None, "cB", None, 0, 0)>>
              /\ HasBullet(call.pre, "b1")) =>
                /\ call.error = None
                /\ call.result.updated = <<"b1">>
                /\ call.result.removed = <<"b1">>
                /\ call.result.skipped = <<>>
                /\ ~HasBullet(call.post, "b1")
                /\ \E r \in call.post.revisions \ call.pre.revisions :
                      r.operations =
                        <<Op("UPDATE", "b1", None, None, "cB", None, 0, 0),
                          Op("REMOVE", "b1", None, None, None, None, 0, 0)>>

C23_Witness ==
    /\ Returned
    /\ call.operations = <<Op("UPDATE", "b1", None, None, "cA", None, 0, 0),
                           Op("REMOVE", "b1", None, None, None, None, 0, 0),
                           Op("UPDATE", "b1", None, None, "cB", None, 0, 0)>>
    /\ HasBullet(call.pre, "b1")
    /\ call.result.updated = <<"b1">>
    /\ call.result.removed = <<"b1">>
    /\ ~HasBullet(call.post, "b1")

\* The store after the first n operations of ops, each submitted as a batch
\* of its own, one call after the other, in the order given by order.
RECURSIVE OneByOne(_, _, _, _)
OneByOne(st, ops, order, n) ==
    IF n = 0 THEN st
    ELSE ApplyDeltasOutcome(
             [committed |-> OneByOne(st, ops, order, n - 1),
              store |-> OneByOne(st, ops, order, n - 1), inTx |-> FALSE],
             <<ops[order[n]]>>, 0).session.store

Orders(n) == {f \in [1..n -> 1..n] : \A i, j \in 1..n : i # j => f[i] # f[j]}

Counts(st, bullet_id) ==
    <<BulletRow(st, bullet_id).helpful_count, BulletRow(st, bullet_id).harmful_count>>

\* The TAG operations of the call, all on one stored bullet.
TagsOnStored ==
    /\ Returned
    /\ \A i \in 1..Len(call.operations) : call.operations[i].action = "TAG"
    /\ SameKey(call.operations)
    /\ HasBullet(call.pre, call.operations[1].bullet_id)

\* The least value a counter can take on the way: its value with every
\* negative delta of the operations applied and no positive one.
RECURSIVE Lowest(_, _, _, _)
Lowest(base, operations, field, n) ==
    IF n = 0 THEN base
    ELSE Lowest(base, operations, field, n - 1)
           + (IF operations[n][field] < 0 THEN operations[n][field] ELSE 0)

\* C24: for TAG operations on one stored bullet, the counts are the same
\* whether the operations are submitted in one batch or one batch each, in
\* whichever order.
C24_TagsCommuteAndAdd ==
    TagsOnStored =>
      LET ops == call.operations
          b == ops[1].bullet_id
      IN  \A order \in Orders(Len(ops)) :
             Counts(OneByOne(call.pre, ops, order, Len(ops)), b) = Counts(call.post, b)

\* C24 (amended): when no counter can fall below zero on the way (its value
\* with all the negative deltas applied is not negative), the counts after
\* one batch and after one batch each, in whichever order, are the stored
\* counts plus the sums of the deltas.
C24_TagsCommuteAndAddWithoutClamp ==
    TagsOnStored =>
      LET ops == call.operations
          n == Len(ops)
          b == ops[1].bullet_id
          old == BulletRow(call.pre, b)
      IN  (/\ Lowest(old.helpful_count, ops, "helpful_delta", n) >= 0
           /\ Lowest(old.harmful_count, ops, "harmful_delta", n) >= 0) =>
             /\ Counts(call.post, b) =
                  <<old.helpful_count + SumDeltas(ops, "helpful_delta", n),
                    old.harmful_count + SumDeltas(ops, "harmful_delta", n)>>
             /\ \A order \in Orders(n) :
                   Counts(OneByOne(call.pre, ops, order, n), b) = Counts(call.post, b)

\* Three TAGs, one of them with a negative delta, and no counter clamped.
C24_Witness ==
    /\ TagsOnStored
    /\ call.operations = <<Op("TAG", "b1", None, None, None, None, 1, 0),
                           Op("TAG", "b1", None, None, None, None, -1, 1),
                           Op("TAG", "b1", None, None, None, None, 1, 0)>>
    /\ Counts(call.pre, "b1") = <<1, 0>>
    /\ Counts(call.post, "b1") = <<2, 1>>

\* The number of times a bullet id is listed in the sections of a snapshot.
RECURSIVE Listed(_, _, _)
Listed(sections, bullet_id, n) ==
    IF n = 0 THEN 0
    ELSE Listed(sections, bullet_id, n - 1) + Count(sections[n].bullet_ids, bullet_id)

\* C25: in every snapshot get_snapshot builds next to concurrent calls of
\* apply_deltas, whatever commits between its two reads, the bullets of the
\* snapshot are the bullets its second read returned, once each, and each
\* is listed once, in the bullet_ids of the entry for its section_name and
\* in no other; a bullet whose section the first read did not return is
\* listed under an entry made for that section.
C25_ConcurrentSnapshotListsEveryBullet ==
    reader.pc = "done" =>
      LET S == reader.snapshot.sections
          B == reader.snapshot.bullets
      IN  /\ {B[i].bullet_id : i \in 1..Len(B)} = reader.read
          /\ Len(B) = Cardinality(reader.read)
          /\ \A i, j \in 1..Len(S) : i # j => S[i].name # S[j].name
          /\ \A i \in 1..Len(B) :
                /\ Listed(S, B[i].bullet_id, Len(S)) = 1
                /\ \E j \in 1..Len(S) :
                      /\ S[j].name = B[i].section_name
                      /\ Count(S[j].bullet_ids, B[i].bullet_id) = 1

\* A batch that created section s2 and a bullet in it committed between the
\* two reads of an unfiltered snapshot: the bullet is listed under s2.
C25_Witness ==
    /\ reader.pc = "done"
    /\ reader.names = {}
    /\ \A i \in 1..Len(reader.sections) : reader.sections[i].name # "s2"
    /\ \E j \in 1..Len(reader.snapshot.sections) :
          /\ reader.snapshot.sections[j].name = "s2"
          /\ reader.snapshot.sections[j].bullet_ids = <<"b1">>
    /\ \E i \in 1..Len(reader.snapshot.bullets) :
          /\ reader.snapshot.bullets[i].bullet_id = "b1"
          /\ reader.snapshot.bullets[i].section_name = "s2"

\* The first n operations of the deduplicated batch of the call without
\* those the loop reported under result.skipped.
RECURSIVE AppliedOps(_)
AppliedOps(n) ==
    IF n = 0 THEN <<>>
    ELSE IF Len(RunLoop(call.pre, Deduped, n, 0).result.skipped)
              > Len(RunLoop(call.pre, Deduped, n - 1, 0).result.skipped)
    THEN AppliedOps(n - 1)
    ELSE Append(AppliedOps(n - 1), Deduped[n])

\* C26: the Revision a call writes holds, in the order of the batch, the
\* deduplicated operations that were applied (TAGs with their summed
\* deltas), without those reported under result.skipped, and the
\* applied_by, description and metadata of the call.
C26_RevisionRecordsAppliedOperations ==
    (Returned /\ call.result.revision_id # NoRevision) =>
      \E r \in call.post.revisions \ call.pre.revisions :
         /\ r.id = call.result.revision_id
         /\ r.operations = AppliedOps(Len(Deduped))
         /\ r.applied_by = AppliedBy
         /\ r.description = Description
         /\ r.metadata = EmptyDict

\* C26 (amended): the Revision a call writes holds the whole deduplicated
\* batch in its order (TAGs with their summed deltas), the operations
\* reported under result.skipped included, and the applied_by, description
\* and metadata of the call.
C26_RevisionRecordsDedupedOperations ==
    (Returned /\ call.result.revision_id # NoRevision) =>
      \E r \in call.post.revisions \ call.pre.revisions :
         /\ r.id = call.result.revision_id
         /\ r.operations = Deduped
         /\ r.applied_by = AppliedBy
         /\ r.description = Description
         /\ r.metadata = EmptyDict

\* A batch of an ADD and a TAG of a missing bullet: the TAG is skipped and
\* recorded in the revision.
C26_Witness ==
    /\ Returned
    /\ call.operations = <<Op("ADD", "b1", "s1", None, "cA", None, 0, 0),
                           Op("TAG", "b2", None, None, None, None, 0, 1)>>
    /\ call.result.skipped = <<"b2">>
    /\ call.result.added = <<"b1">>
    /\ \E r \in call.post.revisions \ call.pre.revisions :
          /\ r.id = call.result.revision_id
          /\ r.operations = call.operations

\* C27: a batch of one operation on bullet b leaves every other bullet and
\* every stored section as it was.  An UPDATE of a stored bullet leaves its
\* counts, and its content, metadata and section unless it provides them; a
\* TAG leaves everything but the two counts; a REMOVE deletes the target
\* and nothing else.
C27_OnlyTargetAndProvidedFields ==
    (Made /\ Len(Deduped) = 1) =>
      LET op == Deduped[1]
          b == op.bullet_id
          others(st) == {r \in st.bullets : r.bullet_id # b}
      IN  /\ others(call.post) = others(call.pre)
          /\ call.pre.sections \subseteq call.post.sections
          /\ (Returned /\ HasBullet(call.pre, b) /\ op.action = "UPDATE") =>
                /\ HasBullet(call.post, b)
                /\ \A f \in DOMAIN BulletRow(call.pre, b) :
                      \/ BulletRow(call.post, b)[f] = BulletRow(call.pre, b)[f]
                      \/ f = "content" /\ op.content \notin {None, ""}
                                       /\ BulletRow(call.post, b)[f] = op.content
                      \/ f = "metadata" /\ op.metadata # None
                                        /\ BulletRow(call.post, b)[f] = op.metadata
                      \/ f = "section_id" /\ op.section_name \notin {None, ""}
                                          /\ \E s \in call.post.sections :
                                                /\ s.name = op.section_name
                                                /\ s.id = BulletRow(call.post, b)[f]
          /\ (Returned /\ HasBullet(call.pre, b) /\ op.action = "TAG") =>
                /\ HasBullet(call.post, b)
                /\ \A f \in DOMAIN BulletRow(call.pre, b) \ {"helpful_count", "harmful_count"} :
                      BulletRow(call.post, b)[f] = BulletRow(call.pre, b)[f]
          /\ (Returned /\ op.action = "REMOVE") =>
                /\ call.post.bullets = others(call.pre)
                /\ call.post.sections = call.pre.sections

\* An UPDATE of the metadata of b1 next to bullet b2: b1 has the new metadata
\* and is otherwise as it was, b2 is as it was.
C27_Witness ==
    /\ Returned
    /\ call.operations = <<Op("UPDATE", "b1", None, None, None, "m1", 0, 0)>>
    /\ HasBullet(call.pre, "b1")
    /\ HasBullet(call.pre, "b2")
    /\ BulletRow(call.pre, "b1").metadata # "m1"
    /\ BulletRow(call.post, "b1") = [BulletRow(call.pre, "b1") EXCEPT !.metadata = "m1"]
    /\ BulletRow(call.post, "b2") = BulletRow(call.pre, "b2")

\* The list of a result an operation is reported under: by its action when
\* its bullet is stored when the operation runs, skipped otherwise; an ADD
\* is reported under added either way.
ReportedUnder(op, exists) ==
    IF op.action = "ADD" THEN "added"
    ELSE IF ~exists THEN "skipped"
    ELSE IF op.action = "UPDATE" THEN "updated"
    ELSE IF op.action = "TAG" THEN "tagged"
    ELSE "removed"

ResultLists == {"added", "updated", "tagged", "removed", "skipped"}

\* C28: when apply_deltas returns, the result after the first i operations
\* of the deduplicated batch is the result after the first i - 1 with the
\* bullet_id of operation i appended to one list, the one its action and the
\* presence of its bullet at that point decide; the five lists together
\* have as many entries as the submitted batch has (action, bullet_id)
\* keys, and the bullet_id of an ADD is never appended to skipped.
C28_EachOperationReportedOnce ==
    Returned =>
      LET D == Deduped
          ops == call.operations
          after(i) == RunLoop(call.pre, D, i, 0)
      IN  /\ call.result.added = after(Len(D)).result.added
          /\ call.result.updated = after(Len(D)).result.updated
          /\ call.result.tagged = after(Len(D)).result.tagged
          /\ call.result.removed = after(Len(D)).result.removed
          /\ call.result.skipped = after(Len(D)).result.skipped
          /\ Len(call.result.added) + Len(call.result.updated)
               + Len(call.result.tagged) + Len(call.result.removed)
               + Len(call.result.skipped)
               = Cardinality({DedupeKey(ops[i]) : i \in 1..Len(ops)})
          /\ \A i \in 1..Len(D) :
                LET list == ReportedUnder(D[i],
                                HasBullet(after(i - 1).st, D[i].bullet_id))
                IN  \A l \in ResultLists :
                       after(i).result[l] =
                          IF l = list THEN Append(after(i - 1).result[l], D[i].bullet_id)
                          ELSE after(i - 1).result[l]

\* Two operations, one on a stored bullet and one on a missing one.
C28_Witness ==
    /\ Returned
    /\ call.operations = <<Op("TAG", "b1", None, None, None, None, 1, 0),
                           Op("REMOVE", "b2", None, None, None, None, 0, 0)>>
    /\ HasBullet(call.pre, "b1")
    /\ ~HasBullet(call.pre, "b2")
    /\ call.result.tagged = <<"b1">>
    /\ call.result.skipped = <<"b2">>
    /\ call.result.added = <<>> /\ call.result.updated = <<>>
    /\ call.result.removed = <<>>

\* The created_at of the stored bullet with a given bullet_id.
CreatedAt(st, bullet_id) == BulletRow(st, bullet_id).created_at

\* C29: for every committed store and every section_names (the empty set:
\* no filter), the snapshot lists the sections in ascending (ordering, name)
\* and the bullet_ids of each section in ascending created_at; with a
\* filter it has the named sections that exist and the bullets they own,
\* without one every section and every bullet.
C29_SnapshotOrdered ==
    \A section_names \in SUBSET SectionNames :
      LET snapshot == Snapshot(cdb, section_names)
          S == snapshot.sections
          B == snapshot.bullets
          wanted == IF section_names = {} THEN SectionNames ELSE section_names
      IN  /\ \A i, j \in 1..Len(S) :
                i < j =>
                  \/ S[i].ordering < S[j].ordering
                  \/ /\ S[i].ordering = S[j].ordering
                     /\ NameRank(S[i].name) < NameRank(S[j].name)
          /\ \A i \in 1..Len(S) :
                \A k, l \in 1..Len(S[i].bullet_ids) :
                   k < l => CreatedAt(cdb, S[i].bullet_ids[k])
                               < CreatedAt(cdb, S[i].bullet_ids[l])
          /\ \A k, l \in 1..Len(B) :
                k < l => B[k].created_at < B[l].created_at
          /\ {S[i].name : i \in 1..Len(S)}
               = {r.name : r \in cdb.sections} \cap wanted
          /\ {B[k].bullet_id : k \in 1..Len(B)}
               = {b.bullet_id : b \in {q \in cdb.bullets :
                                          SectionOf(cdb, q).name \in wanted}}
          /\ \A i \in 1..Len(S) :
                {S[i].bullet_ids[k] : k \in 1..Len(S[i].bullet_ids)}
                  = {b.bullet_id : b \in {q \in cdb.bullets :
                                             SectionOf(cdb, q).name = S[i].name}}

\* Two sections created by concurrent calls have the same ordering and are
\* listed by name; the filter {s2} leaves s2 and fewer bullets.
C29_Witness ==
    /\ \E q, r \in cdb.sections :
          q.name = "s1" /\ r.name = "s2" /\ q.ordering = r.ordering
    /\ Len(Snapshot(cdb, {}).sections) = 2
    /\ Snapshot(cdb, {}).sections[1].name = "s1"
    /\ Snapshot(cdb, {}).sections[2].name = "s2"
    /\ Len(Snapshot(cdb, {"s2"}).sections) = 1
    /\ Len(Snapshot(cdb, {"s2"}).bullets) < Len(Snapshot(cdb, {}).bullets)

\* C30: a call of apply_deltas inside the caller's transaction that returns
\* commits nothing itself.  From then on the committed store is the store
\* committed before the call, or the store the call left: the Revision of
\* the call is committed exactly when the bullets and sections the call left
\* are, and after a rollback neither is in the store although the call
\* returned a revision_id.
C30_NestedBatchCommitsWithOuter ==
    (Returned /\ call.nested) =>
      /\ call.postCommitted = call.preCommitted
      /\ committed \in {call.preCommitted, call.post}
      /\ store \in {call.preCommitted, call.post}
      /\ call.result.revision_id # NoRevision =>
           \E rev \in call.post.revisions \ call.pre.revisions :
              /\ rev.id = call.result.revision_id
              /\ rev \notin call.preCommitted.revisions
              /\ (rev \in committed.revisions) <=> (committed = call.post)
              /\ (rev \notin committed.revisions) <=> (committed = call.preCommitted)

\* The caller rolled back after the nested call had returned a revision_id:
\* the bullets of the batch and its revision are gone.
C30_Witness ==
    /\ Returned
    /\ call.nested
    /\ call.result.revision_id # NoRevision
    /\ call.post.bullets # call.pre.bullets
    /\ ~inTx
    /\ store = call.preCommitted
    /\ committed = call.preCommitted
    /\ \A rev \in committed.revisions : rev.id # call.result.revision_id

====
